---- MODULE Spec2Model ----
(***************************************************************************)
(* Classification workflow of smart-wallet (backend/ai_agent.py), the job  *)
(* registry (backend/services/jobs.py) and the routes that start runs      *)
(* (backend/api/routes/ai.py).                                             *)
(*                                                                         *)
(* Confidences and thresholds are hundredths: 85 stands for 0.85.          *)
(***************************************************************************)
EXTENDS Integers, Sequences, FiniteSets, TLC

\* ---------------------------------------------------------------- bounds
MaxTx == 3      \* rows of the transactions table
MaxOut == 2     \* elements of the JSON array the oracle answers with
MaxRuns == 2    \* runs (requests, jobs) of one behaviour
MaxRequests == 3  \* requests of one caller that reach the rate limiter

RequestIds == 1..MaxRequests

TxIds == 1..MaxTx
RunIds == 1..MaxRuns
None == "None"

\* The requesting owner is u1; the last row of the table belongs to u2.
Users == {"u1", "u2"}
OwnerOf(t) == IF t = MaxTx THEN "u2" ELSE "u1"

DEFAULT_CATEGORIES ==
  << "Groceries", "Restaurants", "Transport", "Utilities", "Rent",
     "Entertainment", "Shopping", "Medical", "Fees", "Subscriptions",
     "Transfer", "Income", "Other" >>

\* ---------------------------------------------------------------- helpers
Max(S) == CHOOSE x \in S : \A y \in S : y <= x

\* The ascending sequence of the elements of a finite set of integers.
RECURSIVE SortedSeq(_)
SortedSeq(S) ==
  IF S = {} THEN << >>
  ELSE LET m == Max(S) IN Append(SortedSeq(S \ {m}), m)

SeqsUpTo(S, n) == UNION {[1..k -> S] : k \in 0..n}

\* ---------------------------------------------------------------- oracle
\* One element of the JSON array the oracle returns.  A field that is absent
\* from the object, or that is not of the expected JSON type, is kept apart
\* from its value in a *_kind field.
Obj(i, ck, c, rhv, cat, tk, tags, bk, btags) ==
  [dict |-> TRUE, has_id |-> TRUE, hashable |-> TRUE, id |-> i,
   conf_kind |-> ck, confidence |-> c,
   requires_human_verification |-> rhv,
   category |-> cat,
   tags_kind |-> tk, tags |-> tags,
   behavioral_tags_kind |-> bk, behavioral_tags |-> btags]

Absent == "absent"

\* {"id": i}: every other key is missing.
Bare(i) == Obj(i, Absent, 0, Absent, Absent, Absent, << >>, Absent, << >>)

\* what the oracle says besides confidence and requires_human_verification
Payload(c, rhv) ==
  IF c = 85 THEN [category |-> "Groceries", tags_kind |-> "list", tags |-> << "essential" >>,
                  behavioral_tags_kind |-> Absent, behavioral_tags |-> << >>]
  ELSE IF rhv = "true"
       THEN [category |-> Absent, tags_kind |-> "list", tags |-> << "essential" >>,
             behavioral_tags_kind |-> "list", behavioral_tags |-> << "impulse" >>]
       ELSE [category |-> "Crypto", tags_kind |-> "nonlist", tags |-> << >>,
             behavioral_tags_kind |-> Absent, behavioral_tags |-> << >>]

Scored(i, c, rhv) ==
  LET p == Payload(c, rhv)
  IN  Obj(i, "num", c, rhv, p.category, p.tags_kind, p.tags,
          p.behavioral_tags_kind, p.behavioral_tags)

\* "confidence": "high" (float() raises ValueError)
BadConfidence(i) ==
  Obj(i, "bad", 0, "false", "Groceries", "list", << "essential" >>, Absent, << >>)

NonDict == [Bare(0) EXCEPT !.dict = FALSE, !.has_id = FALSE]       \* 7, "x", [..]
NoIdObject == [Bare(0) EXCEPT !.has_id = FALSE]                    \* {"category": ..}
UnhashableId == [Bare(0) EXCEPT !.hashable = FALSE]                \* {"id": [1]}

ConfVals == {50, 85}
Thresholds == {0, 85}

\* ids the oracle may name: the rows of the table and one id that is no row
OracleIds == 1..(MaxTx + 1)

\* Scored answers for the rows of the requesting owner; bare objects for every
\* id; a confidence that is no number for a row and for the id that is no row.
OracleElements ==
     {Scored(i, c, rhv) : i \in {t \in TxIds : OwnerOf(t) = "u1"},
                          c \in ConfVals, rhv \in {"true", "false"}}
  \cup {Bare(i) : i \in OracleIds}
  \cup {BadConfidence(i) : i \in {1, MaxTx + 1}}
  \cup {NonDict, NoIdObject, UnhashableId}

\* What call_gemini returns: a parsed JSON value.  Iterating a JSON object
\* yields its keys and iterating a string its characters, none of them a dict;
\* a number, true, false or null cannot be iterated at all.
JsonArray(items) == [kind |-> "array", items |-> items]
JsonObject == [kind |-> "object", items |-> << >>]
JsonString == [kind |-> "string", items |-> << >>]
JsonScalar == [kind |-> "scalar", items |-> << >>]

\* every answer of a reachable oracle
FullOuts ==
  {JsonArray(s) : s \in SeqsUpTo(OracleElements, MaxOut)} \cup {JsonObject, JsonString, JsonScalar}

\* how one call of call_gemini ends
OracleOutcomes == {"no_api_key", "client_error", "api_error", "parse_error", "ok"}

\* ---------------------------------------------------------------- state
VARIABLES
  tx_table,          \* table "transactions": id -> row
  categories_table,  \* table "categories": owner -> names
  pc,                \* run -> where the run stands
  batch_size,        \* State["batch_size"]
  threshold,         \* State["threshold"]
  user_id,           \* State["user_id"]
  categories,        \* State["categories"]
  transactions,      \* State["transactions"]
  results,           \* State["results"]
  path,              \* State["path"]
  branch,            \* the node router() named
  out,               \* what call_gemini returned to tag_with_gemini
  oracle_outcome,    \* how that call ended
  gemini_calls,      \* calls of call_gemini by the run
  exc,               \* the exception that left run_agent, if any
  cursor,            \* persist_results: index of the next result to write
  written,           \* persist_results: ids whose update executed
  write_error,       \* persist_results: ids whose update raised
  response,          \* what run_agent returned
  JOBS,              \* services/jobs.py: job id -> entry
  upc,               \* upload: where the background task stands
  uploads,           \* upload: requests accepted so far
  doc,               \* the document of the request
  task_args,         \* statement_type and user_id of the request
  ran,               \* the extractors extract_statement_data called
  caught,            \* extract_statement_data caught an exception
  task_data,         \* process_statement_task: data
  task_records,      \* process_statement_task: records
  tx_rows,           \* table "transactions": the rows upload stored, in order
  upserts,           \* upsert calls of insert_supabase that returned
  insight_user,      \* run_insights_agent: State["user_id"] of the last run
  all_txs,           \* generate_insights: all_txs
  category_stats,    \* generate_insights: category_stats
  tag_stats,         \* generate_insights: tag_stats
  insights,          \* State["insights"]
  insight_runs,      \* runs of run_insights_agent so far
  rlpc,              \* RateLimiter.__call__: request -> where the call stands or how it ended
  current,           \* RateLimiter.__call__: request -> current, 0 for None
  redis_value,       \* redis: the counter stored at key, 0 when there is no key
  redis_expires,     \* redis: the key carries an expiry
  admitted           \* calls that returned since the key was last created

vars == << tx_table, categories_table, pc, batch_size, threshold, user_id, categories,
           transactions, results, path, branch, out, oracle_outcome, gemini_calls,
           exc, cursor, written, write_error, response, JOBS,
           upc, uploads, doc, task_args, ran, caught, task_data, task_records, tx_rows, upserts,
           insight_user, all_txs, category_stats, tag_stats, insights, insight_runs,
           rlpc, current, redis_value, redis_expires, admitted >>

upload_vars == << upc, uploads, doc, task_args, ran, caught, task_data, task_records, tx_rows, upserts >>
insight_vars == << insight_user, all_txs, category_stats, tag_stats, insights, insight_runs >>
rate_vars == << rlpc, current, redis_value, redis_expires, admitted >>

db_vars == << tx_table, categories_table >>
fetch_vars == << categories, transactions >>
tag_vars == << results, out, oracle_outcome, gemini_calls >>
route_vars == << path, branch >>
persist_vars == << cursor, written, write_error >>
run_vars == << response, exc >>
arg_vars == << batch_size, threshold, user_id >>

NoResponse == [returned |-> FALSE]
NoPdf == [name |-> {}, banner |-> {}, opens |-> FALSE, lines |-> << >>, rows |-> << >>]
NoJob == [status |-> "absent", result |-> NoResponse, error |-> None]

\* the amount of a row in thousandths, and its direction, as upload stored them
AmountOf(t) == 1000 * 2^t
TypeOf(t) == IF t % 2 = 1 THEN "Debit" ELSE "Credit"

\* its date and its details
DateOf(t) == [year |-> 2025, month |-> 11, day |-> t]
DetailsOf(t) == IF t % 2 = 1 THEN << "Blinkit" >> ELSE << "Rent" >>

NewRow(t, vs) ==
  [id |-> t, user_id |-> OwnerOf(t), verification_status |-> vs,
   category |-> None, tags |-> << >>,
   amount |-> AmountOf(t), transaction_type |-> TypeOf(t),
   date |-> DateOf(t), transaction_details |-> DetailsOf(t)]

\* Rows are as upload left them (unverified, helper.py:54) or as the owner
\* verified them by hand; the requesting owner has no category or one.
Init ==
  /\ tx_table \in {[t \in TxIds |-> NewRow(t, vs[t])] :
                     vs \in {v \in [TxIds -> {"unverified", "human_verified"}] :
                              \A t \in TxIds : OwnerOf(t) = "u2" => v[t] = "unverified"}}
  /\ categories_table \in [Users -> {<< >>, << "Food" >>}]
  /\ categories_table["u2"] = << >>
  /\ pc = [r \in RunIds |-> "idle"]
  /\ batch_size = [r \in RunIds |-> 0]
  /\ threshold = [r \in RunIds |-> 0]
  /\ user_id = [r \in RunIds |-> None]
  /\ categories = [r \in RunIds |-> << >>]
  /\ transactions = [r \in RunIds |-> << >>]
  /\ results = [r \in RunIds |-> << >>]
  /\ path = [r \in RunIds |-> ""]
  /\ branch = [r \in RunIds |-> None]
  /\ out = [r \in RunIds |-> JsonArray(<< >>)]
  /\ oracle_outcome = [r \in RunIds |-> None]
  /\ gemini_calls = [r \in RunIds |-> 0]
  /\ exc = [r \in RunIds |-> None]
  /\ cursor = [r \in RunIds |-> 1]
  /\ written = [r \in RunIds |-> {}]
  /\ write_error = [r \in RunIds |-> {}]
  /\ response = [r \in RunIds |-> NoResponse]
  /\ JOBS = [r \in RunIds |-> NoJob]
  /\ upc = "idle"
  /\ uploads = 0
  /\ doc = NoPdf
  /\ task_args = [statement_type |-> None, user_id |-> None]
  /\ ran = << >>
  /\ caught = FALSE
  /\ task_data = << >>
  /\ task_records = << >>
  /\ tx_rows = << >>
  /\ upserts = 0
  /\ insight_user = None
  /\ all_txs = << >>
  /\ category_stats = << >>
  /\ tag_stats = << >>
  /\ insights = ""
  /\ insight_runs = 0
  /\ rlpc = [q \in RequestIds |-> "idle"]
  /\ current = [q \in RequestIds |-> 0]
  /\ redis_value = 0
  /\ redis_expires = FALSE
  /\ admitted = 0

\* ---------------------------------------------------------------- merge
\* float(o.get("confidence", 0.0)) raises for a value float() does not take
FloatRaises(o) == o.conf_kind = "bad"
Confidence(o) == IF o.conf_kind = "num" THEN o.confidence ELSE 0

\* bool(o.get("requires_human_verification", False))
ReqHuman(o) == o.requires_human_verification = "true"

\* bt = o.get("behavioral_tags", o.get("tags", [])); bt if isinstance(bt, list) else []
BehavioralTags(o) ==
  IF o.behavioral_tags_kind # Absent
  THEN (IF o.behavioral_tags_kind = "list" THEN o.behavioral_tags ELSE << >>)
  ELSE IF o.tags_kind = "list" THEN o.tags ELSE << >>

\* o.get("category", "Other")
CategoryOf(o) == IF o.category = Absent THEN "Other" ELSE o.category

\* the elements "for o in out" visits
Iterated(o) == IF o.kind = "array" THEN o.items ELSE << >>

\* the keys of results_map: elements that are dicts with an "id"
Keyed(items) == {k \in 1..Len(items) : items[k].dict /\ items[k].has_id}

\* results_map.get(rid, None): of several objects with one id the last one stays
Matching(items, rid) == {k \in Keyed(items) : items[k].id = rid}
HasResult(items, rid) == Matching(items, rid) # {}
ResultFor(items, rid) == items[Max(Matching(items, rid))]

\* The exception tag_with_gemini raises, if any: TypeError when out is not
\* iterable or an id is not hashable, ValueError when the confidence of an
\* object matched to a batch transaction is no number.
TagException(txs, o) ==
  IF \/ o.kind = "scalar"
     \/ \E k \in Keyed(Iterated(o)) : ~Iterated(o)[k].hashable
  THEN "TypeError"
  ELSE IF \E i \in 1..Len(txs) :
            /\ HasResult(Iterated(o), txs[i].id)
            /\ FloatRaises(ResultFor(Iterated(o), txs[i].id))
       THEN "ValueError"
       ELSE None

\* faulty variant: a confidence equal to the threshold does not meet it
VerificationStatusStrict(c, req_human, th) ==
  IF c > th /\ ~req_human THEN "ai_verified" ELSE "required_human_verification"

VerificationStatus(c, req_human, th) ==
  IF c >= th /\ ~req_human THEN "ai_verified" ELSE "required_human_verification"

Missing(t) ==
  [id |-> t.id, category |-> "Other", tags |-> << >>, confidence |-> 0,
   verification_status |-> "required_human_verification",
   requires_human_verification |-> TRUE]

Matched(t, o, th) ==
  LET v_status == VerificationStatus(Confidence(o), ReqHuman(o), th)
  IN  [id |-> t.id, category |-> CategoryOf(o), tags |-> BehavioralTags(o),
       confidence |-> Confidence(o), verification_status |-> v_status,
       requires_human_verification |-> (v_status = "required_human_verification")]

\* faulty variant: a missing result is read as an empty object, results_map.get(rid, {})
MergeOneDefaultObject(t, items, th) ==
  IF HasResult(items, t.id) THEN Matched(t, ResultFor(items, t.id), th)
  ELSE Matched(t, Bare(t.id), th)

MergeOne(t, items, th) ==
  IF HasResult(items, t.id) THEN Matched(t, ResultFor(items, t.id), th) ELSE Missing(t)

\* faulty variant: transactions without a result are left out of the merge
MergedMatchedOnly(txs, o, th) ==
  LET hit == SelectSeq(txs, LAMBDA t : HasResult(Iterated(o), t.id))
  IN  [i \in 1..Len(hit) |-> MergeOne(hit[i], Iterated(o), th)]

Merged(txs, o, th) == [i \in 1..Len(txs) |-> MergeOne(txs[i], Iterated(o), th)]

\* ---------------------------------------------------------------- router
\* faulty variant: the router looks at the confidence alone
AllHighConfidenceOnly(res, th) ==
  \A i \in 1..Len(res) : res[i].confidence >= th

AllHigh(res, th) ==
  \A i \in 1..Len(res) : res[i].confidence >= th /\ res[i].verification_status = "ai_verified"

\* faulty variant: no early return for an empty result list; all() of nothing is True
RouterPathNoEmptyCheck(res, th) == IF AllHigh(res, th) THEN "A" ELSE "B"

RouterPath(res, th) == IF res = << >> THEN "B" ELSE IF AllHigh(res, th) THEN "A" ELSE "B"

RouterBranch(p) == IF p = "A" THEN "behavioral_analysis" ELSE "mark_needs_verification"

\* ---------------------------------------------------------------- persist
\* faulty variant: the status is recomputed from the confidence with the default cutoff
PersistedStatusFixedCutoff(r) ==
  IF r.confidence >= 85 THEN "ai_verified" ELSE "required_human_verification"

PersistedStatus(r) ==
  IF ~r.requires_human_verification THEN "ai_verified" ELSE "required_human_verification"

Flagged(res) == SelectSeq(res, LAMBDA x : x.requires_human_verification)

\* ---------------------------------------------------------------- fetch
Min(a, b) == IF a <= b THEN a ELSE b

\* faulty variant: the query matches the rows sent to a human as well
UnverifiedOrFlagged(uid) ==
  {t \in TxIds : /\ tx_table[t].verification_status \in {"unverified", "required_human_verification"}
                 /\ (uid # None => tx_table[t].user_id = uid)}

\* rows the query of fetch_unverified matches
Unverified(uid) ==
  {t \in TxIds : /\ tx_table[t].verification_status = "unverified"
                 /\ (uid # None => tx_table[t].user_id = uid)}

\* faulty variant: a row another run holds in its batch is not handed out again
BatchesExclusive(uid, limit) ==
  LET held == {t \in TxIds : \E q \in RunIds :
                 /\ pc[q] \notin {"idle", "pending", "fetch_unverified", "finished"}
                 /\ \E i \in 1..Len(transactions[q]) : transactions[q][i].id = t}
      free == Unverified(uid) \ held
  IN  {B \in SUBSET free : Cardinality(B) = Min(limit, Cardinality(free))}

\* .limit(limit) without an order: any limit of the matching rows
Batches(uid, limit) ==
  {B \in SUBSET Unverified(uid) : Cardinality(B) = Min(limit, Cardinality(Unverified(uid)))}

FetchedRow(t) == [id |-> t, verification_status |-> tx_table[t].verification_status]

\* faulty variant: the names read are taken as they are, none included
EffectiveCategoriesAsRead(uid, read_ok) ==
  IF read_ok /\ uid # None THEN categories_table[uid] ELSE DEFAULT_CATEGORIES

\* state["categories"] as fetch_unverified leaves it
EffectiveCategories(uid, read_ok) ==
  IF read_ok /\ uid # None /\ categories_table[uid] # << >>
  THEN categories_table[uid]
  ELSE DEFAULT_CATEGORIES

\* build_prompt(transactions, categories): the taxonomy and the inputs of the
\* prompt (the tags, heuristics and examples are constants of the module)
build_prompt(txs, cats) ==
  [categories |-> cats, inputs |-> [i \in 1..Len(txs) |-> txs[i].id]]

\* ---------------------------------------------------------------- actions
BatchSizes == {1, MaxTx}

\* POST /ai/run-agent: run_agent runs inside the request
ai_run_agent(r) ==
  /\ pc[r] = "idle"
  /\ \E b \in BatchSizes, th \in Thresholds :
       /\ batch_size' = [batch_size EXCEPT ![r] = b]
       /\ threshold' = [threshold EXCEPT ![r] = th]
  /\ user_id' = [user_id EXCEPT ![r] = "u1"]
  /\ pc' = [pc EXCEPT ![r] = "fetch_unverified"]
  /\ UNCHANGED << upload_vars, insight_vars, rate_vars, db_vars, fetch_vars, tag_vars, route_vars, persist_vars, run_vars, JOBS >>

\* node fetch_unverified: the read of the categories is guarded, the read of
\* the transactions is not
fetch_unverified(r) ==
  /\ pc[r] = "fetch_unverified"
  /\ \E cat_ok \in BOOLEAN, tx_ok \in BOOLEAN :
       /\ categories' = [categories EXCEPT ![r] = EffectiveCategories(user_id[r], cat_ok)]
       /\ IF tx_ok
          THEN /\ \E B \in Batches(user_id[r], batch_size[r]) :
                    transactions' = [transactions EXCEPT ![r] =
                                       [i \in 1..Cardinality(B) |-> FetchedRow(SortedSeq(B)[i])]]
               /\ pc' = [pc EXCEPT ![r] = "tag_with_gemini"]
               /\ UNCHANGED exc
          ELSE /\ pc' = [pc EXCEPT ![r] = "raised"]
               /\ exc' = [exc EXCEPT ![r] = "APIError"]
               /\ UNCHANGED transactions
  /\ UNCHANGED << upload_vars, insight_vars, rate_vars, db_vars, arg_vars, tag_vars, route_vars, persist_vars, response, JOBS >>

\* node tag_with_gemini, with its call of call_gemini
tag_with_gemini(r, Outcomes, Outs) ==
  /\ pc[r] = "tag_with_gemini"
  /\ IF transactions[r] = << >>
     THEN /\ results' = [results EXCEPT ![r] = << >>]
          /\ pc' = [pc EXCEPT ![r] = "router"]
          /\ UNCHANGED << out, oracle_outcome, gemini_calls, exc >>
     ELSE \E oc \in Outcomes :
            \E o \in (IF oc = "ok" THEN Outs ELSE {JsonArray(<< >>)}) :
              /\ oracle_outcome' = [oracle_outcome EXCEPT ![r] = oc]
              /\ out' = [out EXCEPT ![r] = o]
              /\ gemini_calls' = [gemini_calls EXCEPT ![r] = @ + 1]
              /\ IF TagException(transactions[r], o) # None
                 THEN /\ pc' = [pc EXCEPT ![r] = "raised"]
                      /\ exc' = [exc EXCEPT ![r] = TagException(transactions[r], o)]
                      /\ UNCHANGED results
                 ELSE /\ results' = [results EXCEPT ![r] = Merged(transactions[r], o, threshold[r])]
                      /\ pc' = [pc EXCEPT ![r] = "router"]
                      /\ UNCHANGED exc
  /\ UNCHANGED << upload_vars, insight_vars, rate_vars, db_vars, arg_vars, fetch_vars, route_vars, persist_vars, response, JOBS >>

\* the conditional edge after tag_with_gemini; out, a local of the node that
\* has returned, is gone.  router is registered with add_conditional_edges
\* and returns the name of the next node: the graph takes updates of its state
\* from what a node returns, and the dictionary router is handed is a copy
\* read for the call, so its assignment to state["path"] stays in the copy
\* and the path the graph holds is the one of init
router(r) ==
  /\ pc[r] = "router"
  /\ path' = path
  /\ branch' = [branch EXCEPT ![r] = RouterBranch(RouterPath(results[r], threshold[r]))]
  /\ pc' = [pc EXCEPT ![r] = RouterBranch(RouterPath(results[r], threshold[r]))]
  /\ out' = [out EXCEPT ![r] = JsonArray(<< >>)]
  /\ UNCHANGED << upload_vars, insight_vars, rate_vars, db_vars, arg_vars, fetch_vars, results, oracle_outcome, gemini_calls,
                  persist_vars, run_vars, JOBS >>

behavioral_analysis(r) ==
  /\ pc[r] = "behavioral_analysis"
  /\ pc' = [pc EXCEPT ![r] = "persist_results"]
  /\ UNCHANGED << upload_vars, insight_vars, rate_vars, db_vars, arg_vars, fetch_vars, tag_vars, route_vars, persist_vars, run_vars, JOBS >>

mark_needs_verification(r) ==
  /\ pc[r] = "mark_needs_verification"
  /\ pc' = [pc EXCEPT ![r] = "persist_results"]
  /\ UNCHANGED << upload_vars, insight_vars, rate_vars, db_vars, arg_vars, fetch_vars, tag_vars, route_vars, persist_vars, run_vars, JOBS >>

\* faulty variant: the update sends a direction as well
UpdatedRowAndType(row, res) ==
  [row EXCEPT !.category = res.category, !.tags = res.tags,
              !.verification_status = PersistedStatus(res),
              !.transaction_type = "Debit"]

\* .update({"category", "tags", "verification_status"}) on the row
UpdatedRow(row, res) ==
  [row EXCEPT !.category = res.category, !.tags = res.tags,
              !.verification_status = PersistedStatus(res)]

\* persist_results, one update of its loop: the update executes, or it raises
\* and the except clause around the loop ends persist_results
persist_results(r) ==
  /\ pc[r] = "persist_results"
  /\ cursor[r] <= Len(results[r])
  /\ LET res == results[r][cursor[r]]
     IN  \E ok \in BOOLEAN :
           IF ok
           THEN /\ tx_table' = [tx_table EXCEPT ![res.id] = UpdatedRow(@, res)]
                /\ written' = [written EXCEPT ![r] = @ \cup {res.id}]
                /\ cursor' = [cursor EXCEPT ![r] = @ + 1]
                /\ UNCHANGED << pc, write_error >>
           ELSE /\ write_error' = [write_error EXCEPT ![r] = @ \cup {res.id}]
                /\ pc' = [pc EXCEPT ![r] = "return"]
                /\ UNCHANGED << tx_table, written, cursor >>
  /\ UNCHANGED << upload_vars, insight_vars, rate_vars, categories_table, arg_vars, fetch_vars, tag_vars, route_vars, run_vars, JOBS >>

\* persist_results returns: nothing to write, or the loop is through (the
\* budget checks that follow write no transaction)
persist_done(r) ==
  /\ pc[r] = "persist_results"
  /\ cursor[r] > Len(results[r])
  /\ pc' = [pc EXCEPT ![r] = "return"]
  /\ UNCHANGED << upload_vars, insight_vars, rate_vars, db_vars, arg_vars, fetch_vars, tag_vars, route_vars, persist_vars, run_vars, JOBS >>

RunAgentResponse(res, p) ==
  [returned |-> TRUE, count |-> Len(Flagged(res)), path |-> p,
   flagged_count |-> Len(Flagged(res)), results |-> Flagged(res)]

run_agent_return(r) ==
  /\ pc[r] = "return"
  /\ response' = [response EXCEPT ![r] = RunAgentResponse(results[r], path[r])]
  /\ pc' = [pc EXCEPT ![r] = "done"]
  /\ UNCHANGED << upload_vars, insight_vars, rate_vars, db_vars, arg_vars, fetch_vars, tag_vars, route_vars, persist_vars, exc, JOBS >>

RunSteps(r, Outcomes, Outs) ==
  \/ fetch_unverified(r)
  \/ tag_with_gemini(r, Outcomes, Outs)
  \/ router(r)
  \/ behavioral_analysis(r)
  \/ mark_needs_verification(r)
  \/ persist_results(r)
  \/ persist_done(r)
  \/ run_agent_return(r)

\* One synchronous request, any answer of the oracle.
Next == \E r \in {1} : ai_run_agent(r) \/ RunSteps(r, OracleOutcomes, FullOuts)

Spec == Init /\ [][Next]_vars

\* ---------------------------------------------------------------- jobs
PendingEntry == [status |-> "pending", result |-> NoResponse, error |-> None]
RunningEntry == [status |-> "running", result |-> NoResponse, error |-> None]
DoneEntry(res) == [status |-> "done", result |-> res, error |-> None]
\* faulty variant: the except clause drops the message
ErrorEntryNoMessage(e) == [status |-> "error", result |-> NoResponse, error |-> None]

\* str(e) of the exception that left run_agent
ErrorEntry(e) == [status |-> "error", result |-> NoResponse, error |-> e]

\* POST /ai/run-agent-async: registers the job and schedules run_agent_job
ai_run_agent_async(r, Sizes, Ths) ==
  /\ pc[r] = "idle"
  /\ JOBS' = [JOBS EXCEPT ![r] = PendingEntry]
  /\ \E b \in Sizes, th \in Ths :
       /\ batch_size' = [batch_size EXCEPT ![r] = b]
       /\ threshold' = [threshold EXCEPT ![r] = th]
  /\ user_id' = [user_id EXCEPT ![r] = "u1"]
  /\ pc' = [pc EXCEPT ![r] = "pending"]
  /\ UNCHANGED << upload_vars, insight_vars, rate_vars, db_vars, fetch_vars, tag_vars, route_vars, persist_vars, run_vars >>

\* run_agent_job starts: the background task calls run_agent
run_agent_job(r) ==
  /\ pc[r] = "pending"
  /\ JOBS' = [JOBS EXCEPT ![r] = RunningEntry]
  /\ pc' = [pc EXCEPT ![r] = "fetch_unverified"]
  /\ UNCHANGED << upload_vars, insight_vars, rate_vars, db_vars, arg_vars, fetch_vars, tag_vars, route_vars, persist_vars, run_vars >>

\* run_agent returned to run_agent_job
run_agent_job_done(r) ==
  /\ pc[r] = "done"
  /\ JOBS[r].status = "running"
  /\ JOBS' = [JOBS EXCEPT ![r] = DoneEntry(response[r])]
  /\ pc' = [pc EXCEPT ![r] = "finished"]
  /\ UNCHANGED << upload_vars, insight_vars, rate_vars, db_vars, arg_vars, fetch_vars, tag_vars, route_vars, persist_vars, run_vars >>

\* an exception left run_agent: the except clause of run_agent_job
run_agent_job_error(r) ==
  /\ pc[r] = "raised"
  /\ JOBS[r].status = "running"
  /\ JOBS' = [JOBS EXCEPT ![r] = ErrorEntry(exc[r])]
  /\ pc' = [pc EXCEPT ![r] = "finished"]
  /\ UNCHANGED << upload_vars, insight_vars, rate_vars, db_vars, arg_vars, fetch_vars, tag_vars, route_vars, persist_vars, run_vars >>

\* The oracle of the jobs answers from a short menu: a good object for every
\* row of the owner, or one object whose confidence is no number.
GoodAnswer ==
  [i \in 1..(MaxTx - 1) |-> Scored(i, 85, "false")]

JobOuts == {JsonArray(GoodAnswer), JsonArray(<< BadConfidence(1) >>)}

JobOutcomes == {"api_error", "ok"}

InitJobs ==
  /\ Init
  /\ \A t \in TxIds : tx_table[t].verification_status = "unverified"
  /\ categories_table["u1"] = << >>

\* Background jobs of one owner, run by the thread pool side by side.
NextJobs ==
  \E r \in RunIds :
    \/ ai_run_agent_async(r, {MaxTx}, {85})
    \/ run_agent_job(r)
    \/ RunSteps(r, JobOutcomes, JobOuts)
    \/ run_agent_job_done(r)
    \/ run_agent_job_error(r)

SpecJobs == InitJobs /\ [][NextJobs]_vars

\* ---------------------------------------------------------------- one run after another
\* the run has not begun, or run_agent has returned or raised
Over(r) == pc[r] \in {"idle", "done", "raised"}

\* Requests to POST /ai/run-agent of one owner, each sent when the one before
\* it is over; the oracle answers from the short menu.
NextSequential ==
  \E r \in RunIds :
    \/ (\A q \in RunIds \ {r} : Over(q)) /\ ai_run_agent(r)
    \/ RunSteps(r, JobOutcomes, JobOuts)

SpecSequential == InitJobs /\ [][NextSequential]_vars

\* ================================================================ statements
\* A string is a sequence of pieces: a digit, a punctuation mark, a blank, a
\* line feed, or a run of letters ("Nov", "Paid", "Blinkit").
MaxLines == 2   \* lines of text, or rows of a table, in a document

Digits == {"0", "1", "2", "3", "4", "5", "6", "7", "8", "9"}

DigitVal(c) == CHOOSE n \in 0..9 : << "0", "1", "2", "3", "4", "5", "6", "7", "8", "9" >>[n + 1] = c

\* the runs of three letters, and the letters "in" finds inside a run
Alpha3 == {"Nov", "INR"}
Within(c) ==
  CASE c = "Credit" -> {"Credit", "Cr", "C"}
    [] c = "Cr" -> {"Cr", "C"}
    [] c = "CARD" -> {"C", "D"}
    [] c = "CASHBACK" -> {"C"}
    [] c = "Debit" -> {"Debit", "D"}
    [] OTHER -> {c}

\* kw in s
In(kw, s) == \E i \in 1..Len(s) : kw \in Within(s[i])

RECURSIVE Concat(_)
Concat(ss) == IF ss = << >> THEN << >> ELSE Head(ss) \o Concat(Tail(ss))

\* s.split(sep): the pieces between the occurrences of sep, empty ones kept
RECURSIVE SplitOn(_, _)
SplitOn(s, sep) ==
  IF \A i \in 1..Len(s) : s[i] # sep
  THEN << s >>
  ELSE LET k == CHOOSE i \in 1..Len(s) : s[i] = sep /\ \A j \in 1..(i - 1) : s[j] # sep
       IN  << SubSeq(s, 1, k - 1) >> \o SplitOn(SubSeq(s, k + 1, Len(s)), sep)

Blank == {" ", "\n"}

\* s.split(): the runs of non-blank pieces
Words(s) ==
  LET flat == [i \in 1..Len(s) |-> IF s[i] \in Blank THEN " " ELSE s[i]]
  IN  SelectSeq(SplitOn(flat, " "), LAMBDA w : w # << >>)

\* s.strip()
RECURSIVE Strip(_)
Strip(s) ==
  IF s = << >> THEN s
  ELSE IF Head(s) \in Blank THEN Strip(Tail(s))
  ELSE IF s[Len(s)] \in Blank THEN Strip(SubSeq(s, 1, Len(s) - 1))
  ELSE s

\* re.sub(r'[^\d.-]', '', s)
Cleaned(s) == SelectSeq(s, LAMBDA c : c \in Digits \cup {".", "-"})

\* float() takes an optional sign, then digits with at most one point
FloatTakes(s) ==
  LET body == IF s # << >> /\ Head(s) = "-" THEN Tail(s) ELSE s
  IN  /\ \E i \in 1..Len(body) : body[i] \in Digits
      /\ \A i \in 1..Len(body) : body[i] # "-"
      /\ Cardinality({i \in 1..Len(body) : body[i] = "."}) <= 1

RECURSIVE IntOf(_)
IntOf(ds) == IF ds = << >> THEN 0 ELSE 10 * IntOf(SubSeq(ds, 1, Len(ds) - 1)) + DigitVal(ds[Len(ds)])

\* the value of float(s) in thousandths (the strings used have at most three
\* decimals)
FloatOf(s) ==
  LET neg == Head(s) = "-"
      body == IF neg THEN Tail(s) ELSE s
      parts == SplitOn(body, ".")
      whole == IntOf(parts[1])
      frac == IF Len(parts) > 1 THEN SubSeq(parts[2] \o << "0", "0", "0" >>, 1, 3) ELSE << "0", "0", "0" >>
      v == 1000 * whole + IntOf(frac)
  IN  IF neg THEN 0 - v ELSE v

parse_amount(amount_str) ==
  IF amount_str = << >> THEN 0
  ELSE IF FloatTakes(Cleaned(amount_str)) THEN FloatOf(Cleaned(amount_str))
  ELSE 0

\* ---------------------------------------------------------------- patterns
\* A pattern is a set of sequences of classes, one sequence per way the
\* regular expression can be read.
Rep(class, lo, hi) == UNION {[1..n -> {class}] : n \in lo..hi}
Cat(A, B) == {a \o b : a \in A, b \in B}

Is(c, class) ==
  CASE class = "d" -> c \in Digits
    [] class = "a3" -> c \in Alpha3
    [] class = "s" -> c \in Blank
    [] class = "sep" -> c \in {"-", "/"}
    [] class = "num" -> c \in Digits \cup {","}
    [] class = "CD" -> c \in {"C", "D", "Cr", "Credit", "Debit", "CARD", "CASHBACK", "Date"}
    [] OTHER -> c = class

MatchesAt(s, i, p) ==
  /\ i + Len(p) - 1 <= Len(s)
  /\ \A k \in 1..Len(p) : Is(s[i + k - 1], p[k])

\* \w
WordPiece(c) == c \notin Blank \cup {".", ",", "-", "/", "\\", "₹"}

\* \b before position i and after position j
Bounded(s, i, j) ==
  /\ i = 1 \/ ~WordPiece(s[i - 1])
  /\ j = Len(s) \/ ~WordPiece(s[j + 1])

\* the matches of pattern P in s as << first, last >>, and re.search: the
\* leftmost one, the longest there
Matches(s, P, bounded) ==
  LET hits == {x \in (1..Len(s)) \X P : MatchesAt(s, x[1], x[2])}
      M == {<< x[1], x[1] + Len(x[2]) - 1 >> : x \in hits}
  IN  {m \in M : bounded => Bounded(s, m[1], m[2])}

\* the least first position of a set of matches
Min2(M) == CHOOSE i \in {m[1] : m \in M} : \A m \in M : i <= m[1]

Search(s, P, bounded) ==
  LET M == Matches(s, P, bounded)
  IN  IF M = {} THEN << >>
      ELSE LET i == Min2(M)
           IN  << i, Max({m[2] : m \in {n \in M : n[1] = i}}) >>

Found(s, P, bounded) == Matches(s, P, bounded) # {}
Group(s, m) == SubSeq(s, m[1], m[2])

\* re.sub(P, "", s): every match cut out
RECURSIVE CutMatches(_, _)
CutMatches(s, P) ==
  IF ~Found(s, P, FALSE) THEN s
  ELSE LET m == Search(s, P, FALSE)
       IN  SubSeq(s, 1, m[1] - 1) \o CutMatches(SubSeq(s, m[2] + 1, Len(s)), P)

\* s.replace(sub, ""), and s.split(sub)[0]
RECURSIVE Remove(_, _)
Remove(s, sub) ==
  IF sub = << >> \/ ~\E i \in 1..Len(s) : i + Len(sub) - 1 <= Len(s) /\ SubSeq(s, i, i + Len(sub) - 1) = sub
  THEN s
  ELSE LET i == CHOOSE k \in 1..Len(s) :
                  /\ k + Len(sub) - 1 <= Len(s) /\ SubSeq(s, k, k + Len(sub) - 1) = sub
                  /\ \A j \in 1..(k - 1) : SubSeq(s, j, j + Len(sub) - 1) # sub
       IN  SubSeq(s, 1, i - 1) \o Remove(SubSeq(s, i + Len(sub), Len(s)), sub)

Before(s, kw) ==
  IF ~In(kw, s) THEN s
  ELSE SubSeq(s, 1, (CHOOSE i \in 1..Len(s) :
                       kw \in Within(s[i]) /\ \A j \in 1..(i - 1) : kw \notin Within(s[j])) - 1)

\* a raw tuple, as the extractors append it
Tuple(date, details, amount, type) ==
  [date |-> date, transaction_details |-> details, amount |-> amount, type |-> type]

\* what a call returned: its list, or that it raised
Returned(txs) == [raised |-> FALSE, transactions |-> txs]
Raised == [raised |-> TRUE, transactions |-> << >>]

\* ---------------------------------------------------------------- GPay
\* (\d{2}[A-Za-z]{3},\d{4})
gpay_date_pattern == Cat(Rep("d", 2, 2), Cat(Rep("a3", 1, 1), Cat(Rep(",", 1, 1), Rep("d", 4, 4))))

\* one line of a page: the date it leaves in current_date, and the tuple it
\* appends, if any; parts[1].split()[0] raises IndexError when nothing
\* follows the currency sign
gpay_line(line, current_date) ==
  LET date == IF Found(line, gpay_date_pattern, FALSE)
              THEN Group(line, Search(line, gpay_date_pattern, FALSE))
              ELSE current_date
      parts == SplitOn(line, "₹")
      details == Strip(CutMatches(Strip(Remove(Strip(parts[1]), date)), gpay_date_pattern))
      t_type == IF In("Received", details) THEN "Credit" ELSE "Debit"
  IN  IF In("₹", line) /\ date # << >>
      THEN IF Words(parts[2]) = << >>
           THEN [current_date |-> date, raised |-> TRUE, appended |-> << >>]
           ELSE [current_date |-> date, raised |-> FALSE,
                 appended |-> << Tuple(date, details, parse_amount(Words(parts[2])[1]), t_type) >>]
      ELSE [current_date |-> date, raised |-> FALSE, appended |-> << >>]

\* the lines of one page from line i on
RECURSIVE gpay_page(_, _, _)
gpay_page(lines, i, current_date) ==
  IF i > Len(lines) THEN Returned(<< >>)
  ELSE LET l == gpay_line(lines[i], current_date)
           rest == gpay_page(lines, i + 1, l.current_date)
       IN  IF l.raised \/ rest.raised THEN Raised
           ELSE Returned(l.appended \o rest.transactions)

\* ---------------------------------------------------------------- pages
\* The items of a text document are its lines in order; PageBreak ends a
\* page, and BadPage stands for a page whose extract_text() raises.
PageBreak == << "\f" >>
BadPage == << "?" >>

Pages(items) ==
  SplitOn([i \in 1..Len(items) |-> IF items[i] = BadPage THEN PageBreak ELSE items[i]], PageBreak)
BadPages(items) == \E i \in 1..Len(items) : items[i] = BadPage

\* the loop over the pages: an exception in any page leaves the extractor
Gather(items, res) ==
  IF BadPages(items) \/ \E p \in 1..Len(res) : res[p].raised THEN Raised
  ELSE Returned(Concat([p \in 1..Len(res) |-> res[p].transactions]))

extract_gpay_statement(pdf) ==
  LET pages == Pages(pdf.lines)
  IN  Gather(pdf.lines, [p \in 1..Len(pages) |-> gpay_page(pages[p], 1, << >>)])

\* ---------------------------------------------------------------- PhonePe
\* ([A-Za-z]{3}\s\d{1,2},\s\d{4}); the letter runs that stand before a day
\* number in the lines used are month names
phonepe_date_pattern ==
  Cat(Rep("a3", 1, 1), Cat(Rep("s", 1, 1), Cat(Rep("d", 1, 2),
    Cat(Rep(",", 1, 1), Cat(Rep("s", 1, 1), Rep("d", 4, 4))))))

Last(s) == s[Len(s)]

\* ^\d+(\.\d+)?$
IsDecimal(s) ==
  LET parts == SplitOn(s, ".")
  IN  /\ Len(parts) \in {1, 2}
      /\ \A k \in 1..Len(parts) :
           parts[k] # << >> /\ \A i \in 1..Len(parts[k]) : parts[k][i] \in Digits

\* re.sub(r"^[-\u2013\u2014]+\s*", "", s): a leading run of hyphens, en dashes
\* and em dashes, and the blanks after it
Dashes == {"-", "ndash", "mdash"}
RECURSIVE DropWhile(_, _)
DropWhile(s, S) == IF s # << >> /\ Head(s) \in S THEN DropWhile(Tail(s), S) ELSE s
CutDashes(s) ==
  IF s # << >> /\ Head(s) \in Dashes
  THEN DropWhile(DropWhile(s, Dashes), Blank)
  ELSE s

Lower(c) ==
  CASE c \in {"Received", "RECEIVED"} -> "received"
    [] c \in {"Paid", "PAID"} -> "paid"
    [] c \in {"to", "TO"} -> "to"
    [] c \in {"from", "FROM"} -> "from"
    [] OTHER -> c
InAnyCase(kw, s) == \E i \in 1..Len(s) : Lower(kw) \in {Lower(w) : w \in Within(s[i])}

\* the amount found in the three lines after line i of the page, 0 if none
LookAhead(lines, i) ==
  LET amt(k) == Remove(Last(Words(lines[k])), << "," >>)
      hits == {k \in (i + 1)..Min(i + 3, Len(lines)) :
                 Words(lines[k]) # << >> /\ IsDecimal(amt(k))}
  IN  IF hits = {} THEN 0
      ELSE parse_amount(amt(CHOOSE k \in hits : \A j \in hits : k <= j))

\* line i of a page: the tuple it appends, if any
phonepe_line(lines, i) ==
  LET line == lines[i]
      date_str == Group(line, Search(line, phonepe_date_pattern, FALSE))
      split_keyword == IF In("Credit", line) THEN "Credit" ELSE "Debit"
      details == CutDashes(Strip(Remove(Remove(Remove(Remove(line, date_str),
                    << "Credit" >>), << "Debit" >>), << "INR" >>)))
      t_type == IF In("Received", line) THEN "Credit"
                ELSE IF InAnyCase("Received", details) THEN "Credit" ELSE "Debit"
  IN  IF ~Found(line, phonepe_date_pattern, FALSE) THEN << >>
      ELSE IF In("Credit", line) \/ In("Debit", line)
      THEN << Tuple(date_str, Strip(Remove(Before(line, split_keyword), date_str)),
                    parse_amount(Last(Words(line))), split_keyword) >>
      ELSE IF LookAhead(lines, i) > 0
      THEN << Tuple(date_str, details, LookAhead(lines, i), t_type) >>
      ELSE << >>

phonepe_page(lines) ==
  Returned(Concat([i \in 1..Len(lines) |-> phonepe_line(lines, i)]))

extract_phonepe_statement(pdf) ==
  LET pages == Pages(pdf.lines)
  IN  Gather(pdf.lines, [p \in 1..Len(pages) |-> phonepe_page(pages[p])])

\* ---------------------------------------------------------------- SBI Card
\* A table is a sequence of rows, a row a sequence of cells, a cell a string;
\* the empty string stands for a cell that is None or ''.
Opt(P) == P \cup {<< >>}

\* [\d,]+(?:\.\d+)?\s*[CD], as far as finding one match goes: blanks come
\* singly or in pairs and decimals in runs of at most three in the cells used
sbi_amount_pattern ==
  Cat(Rep("num", 1, 1), Cat(Opt(Cat(Rep(".", 1, 1), Rep("d", 1, 3))),
    Cat(Rep("s", 0, 2), Rep("CD", 1, 1))))

is_sbi_transactions_table(table) ==
  /\ Len(table) >= 2
  /\ \E c \in 1..Len(table[1]) : In("Date", table[1][c])
  /\ \E c \in 1..Len(table[1]) : In("Amount", table[1][c])
  /\ \E r \in 2..Len(table) :
       /\ Len(table[r]) >= 3
       /\ table[r][3] # << >>
       /\ Found(table[r][3], sbi_amount_pattern, FALSE)

\* one row read by the lines of its amount cell, a short details cell
\* repeating its last line
sbi_row_by_amounts(row) ==
  IF Len(row) >= 3 /\ row[1] # << >> /\ row[2] # << >> /\ row[3] # << >>
  THEN Concat([i \in 1..Min(Len(SplitOn(row[1], "\n")), Len(SplitOn(row[3], "\n"))) |->
                 IF parse_amount(SplitOn(row[3], "\n")[i]) > 0
                 THEN << Tuple(SplitOn(row[1], "\n")[i],
                               SplitOn(row[2], "\n")[Min(i, Len(SplitOn(row[2], "\n")))],
                               parse_amount(SplitOn(row[3], "\n")[i]),
                               IF In("C", SplitOn(row[3], "\n")[i]) THEN "Credit" ELSE "Debit") >>
                 ELSE << >>])
  ELSE << >>

\* one row: its cells split on line feeds and zipped to the shortest
sbi_row(row) ==
  IF Len(row) >= 3 /\ row[1] # << >> /\ row[2] # << >> /\ row[3] # << >>
  THEN LET dates == SplitOn(row[1], "\n")
           details == SplitOn(row[2], "\n")
           amounts == SplitOn(row[3], "\n")
           count == Min(Len(dates), Min(Len(details), Len(amounts)))
       IN  Concat([i \in 1..count |->
                     IF parse_amount(amounts[i]) > 0
                     THEN << Tuple(dates[i], details[i], parse_amount(amounts[i]),
                                   IF In("C", amounts[i]) THEN "Credit" ELSE "Debit") >>
                     ELSE << >>])
  ELSE << >>

\* the loop over the rows stands inside the test of the header's first cell
sbi_table(table) ==
  IF is_sbi_transactions_table(table) /\ table[1] # << >> /\ In("Date", table[1][1])
  THEN Concat([r \in 1..(Len(table) - 1) |-> sbi_row(table[r + 1])])
  ELSE << >>

Tables(pdf) == IF pdf.rows = << >> THEN << >> ELSE << pdf.rows >>

extract_sbi_statement(pdf) ==
  Returned(Concat([t \in 1..Len(Tables(pdf)) |-> sbi_table(Tables(pdf)[t])]))

\* ---------------------------------------------------------------- Axis
HasSub(s, sub) ==
  \E i \in 1..Len(s) : i + Len(sub) - 1 <= Len(s) /\ SubSeq(s, i, i + Len(sub) - 1) = sub

axis_row(row) ==
  IF Len(row) < 5 \/ row[1] = << >> THEN << >>
  ELSE LET details == [i \in 1..Len(row[3]) |-> IF row[3][i] = "\n" THEN " " ELSE row[3][i]]
           debit == row[4]
           credit == row[5]
           amount == IF Strip(debit) # << >> THEN parse_amount(debit)
                     ELSE IF Strip(credit) # << >> THEN parse_amount(credit)
                     ELSE 0
           t_type == IF Strip(debit) = << >> /\ Strip(credit) # << >> THEN "Credit" ELSE "Debit"
       IN  IF amount > 0 THEN << Tuple(row[1], details, amount, t_type) >> ELSE << >>

axis_table(table) ==
  LET start_idx == IF table[1] # << >> /\ HasSub(table[1][1], << "Tran", " ", "Date" >>)
                   THEN 1 ELSE 0
  IN  Concat([r \in 1..(Len(table) - start_idx) |-> axis_row(table[r + start_idx])])

extract_axis_statement(pdf) ==
  Returned(Concat([t \in 1..Len(Tables(pdf)) |-> axis_table(Tables(pdf)[t])]))

\* ---------------------------------------------------------------- generic
\* \b(?:\d{1,2}[-/]\d{1,2}[-/]\d{2,4}|\d{1,2}\s+[A-Za-z]{3}\s+\d{2,4}|\d{4}[-/]\d{1,2}[-/]\d{1,2})\b
\* with single blanks
generic_date_pattern ==
  Cat(Rep("d", 1, 2), Cat(Rep("sep", 1, 1), Cat(Rep("d", 1, 2), Cat(Rep("sep", 1, 1), Rep("d", 2, 4)))))
    \cup Cat(Rep("d", 1, 2), Cat(Rep("s", 1, 1), Cat(Rep("a3", 1, 1), Cat(Rep("s", 1, 1), Rep("d", 2, 4)))))
    \cup Cat(Rep("d", 4, 4), Cat(Rep("sep", 1, 1), Cat(Rep("d", 1, 2), Cat(Rep("sep", 1, 1), Rep("d", 1, 2)))))

\* ^\d+(\.\d{1,2})?$
IsMoney(s) == IsDecimal(s) /\ (Len(SplitOn(s, ".")) = 2 => Len(SplitOn(s, ".")[2]) <= 2)

\* the tokens of the line from token k leftwards: the first that reads as an
\* amount, a whole number between 1900 and 2100 counting only with a point
RECURSIVE generic_amount(_, _)
generic_amount(parts, k) ==
  IF k = 0 THEN 0
  ELSE LET clean_part == SelectSeq(parts[k], LAMBDA c : c \in Digits \cup {"."})
           val == FloatOf(clean_part)
           year == val > 1900 * 1000 /\ val < 2100 * 1000 /\ val % 1000 = 0
       IN  IF clean_part = << >> \/ ~IsMoney(clean_part) THEN generic_amount(parts, k - 1)
           ELSE IF year /\ ~In(".", parts[k]) THEN generic_amount(parts, k - 1)
           ELSE val

generic_line(line) ==
  LET date_str == Group(line, Search(line, generic_date_pattern, TRUE))
      amount == generic_amount(Words(line), Len(Words(line)))
      t_type == IF In("Cr", line) \/ In("Credit", line) \/ In("Received", line)
                THEN "Credit" ELSE "Debit"
  IN  IF Found(line, generic_date_pattern, TRUE) /\ amount > 0
      THEN << Tuple(date_str, Strip(Remove(line, date_str)), amount, t_type) >>
      ELSE << >>

extract_generic_statement(pdf) ==
  LET pages == Pages(pdf.lines)
  IN  Gather(pdf.lines, [p \in 1..Len(pages) |->
                Returned(Concat([i \in 1..Len(pages[p]) |-> generic_line(pages[p][i])]))])

\* ---------------------------------------------------------------- helper.py
\* the runs of digits of a string taken together, the other pieces singly
RECURSIVE Fields(_)
Fields(s) ==
  IF s = << >> THEN << >>
  ELSE IF Head(s) \in Digits
  THEN LET n == CHOOSE k \in 1..Len(s) :
                  /\ \A j \in 1..k : s[j] \in Digits
                  /\ k = Len(s) \/ s[k + 1] \notin Digits
       IN  << SubSeq(s, 1, n) >> \o Fields(SubSeq(s, n + 1, Len(s)))
  ELSE << << Head(s) >> >> \o Fields(Tail(s))

Months == {"Nov"}
MonthNo(b) == 11
DaysIn(m) == IF m \in {4, 6, 9, 11} THEN 30 ELSE IF m = 2 THEN 28 ELSE 31

IsNumber(f, lo, hi) == Len(f) \in lo..hi /\ \A i \in 1..Len(f) : f[i] \in Digits

\* a field of the string against a directive of the format
FieldFits(f, d) ==
  CASE d \in {"%d", "%m"} -> IsNumber(f, 1, 2)
    [] d \in {"%2d", "%2m"} -> IsNumber(f, 2, 2)
    [] d = "%Y" -> IsNumber(f, 4, 4)
    [] d = "%y" -> IsNumber(f, 2, 2)
    [] d = "%b" -> f[1] \in Months
    [] OTHER -> f = << d >>

IsoDate(y, m, d) == [year |-> y, month |-> m, day |-> d]
\* None as a date
NullDate == IsoDate(0, 0, 0)

\* datetime.strptime(s, fmt).date().isoformat(), NullDate when it raises
strptime(s, fmt) ==
  LET fs == Fields(s)
      at(d) == CHOOSE k \in 1..Len(fmt) : fmt[k] \in d
      day == IntOf(fs[at({"%d", "%2d"})])
      month == IF \E k \in 1..Len(fmt) : fmt[k] = "%b" THEN MonthNo(fs[at({"%b"})][1])
               ELSE IntOf(fs[at({"%m", "%2m"})])
      year == IF \E k \in 1..Len(fmt) : fmt[k] = "%Y" THEN IntOf(fs[at({"%Y"})])
              ELSE IF IntOf(fs[at({"%y"})]) <= 68 THEN 2000 + IntOf(fs[at({"%y"})])
              ELSE 1900 + IntOf(fs[at({"%y"})])
  IN  IF /\ Len(fs) = Len(fmt)
         /\ \A k \in 1..Len(fmt) : FieldFits(fs[k], fmt[k])
         /\ month \in 1..12 /\ day \in 1..DaysIn(month) /\ year >= 1
      THEN IsoDate(year, month, day)
      ELSE NullDate

\* "%d%b,%Y", "%d %b %y", "%d-%m-%Y", "%b %d, %Y", "%d %b %Y"
fmts ==
  << << "%d", "%b", ",", "%Y" >>, << "%d", " ", "%b", " ", "%y" >>,
     << "%d", "-", "%m", "-", "%Y" >>, << "%b", " ", "%d", ",", " ", "%Y" >>,
     << "%d", " ", "%b", " ", "%Y" >> >>

\* datetime.fromisoformat over a date: YYYY-MM-DD
iso_format == << "%Y", "-", "%2m", "-", "%2d" >>

normalize_date(date_str) ==
  LET s == Strip(date_str)
      hits == {k \in 1..Len(fmts) : strptime(s, fmts[k]) # NullDate}
  IN  IF date_str = << >> THEN NullDate
      ELSE IF hits # {} THEN strptime(s, fmts[CHOOSE k \in hits : \A j \in hits : k <= j])
      ELSE strptime(s, iso_format)

\* The patterns of clean_details are raw strings that hold two backslashes
\* before each s: they read "a backslash, then the letter s", not "a blank".
\* ^(Paid\\s*to|Paidto|Received\\s*from|Receivedfrom)\\s*, ignoring case:
\* the end of the match at the head of s, 0 when there is none
Run(s, i, S) ==
  IF i > Len(s) \/ s[i] \notin S THEN 0
  ELSE (CHOOSE k \in i..Len(s) :
          /\ \A j \in i..k : s[j] \in S
          /\ k = Len(s) \/ s[k + 1] \notin S) - i + 1

\* a backslash at i and the letters s after it: the position after them
AfterBackslashS(s, i, S) ==
  IF i <= Len(s) /\ s[i] = "\\" THEN i + 1 + Run(s, i + 1, S) ELSE 0

PrefixEnd(s) ==
  LET first == IF s = << >> THEN "" ELSE Lower(s[1])
      second == IF first = "paid" THEN "to" ELSE "from"
      spaced == AfterBackslashS(s, 2, {"s", "S"})
      word == IF spaced # 0 /\ spaced <= Len(s) /\ Lower(s[spaced]) = second THEN spaced + 1
              ELSE IF Len(s) >= 2 /\ Lower(s[2]) = second THEN 3
              ELSE 0
  IN  IF first \notin {"paid", "received"} \/ word = 0 THEN 0
      ELSE IF AfterBackslashS(s, word, {"s", "S"}) = 0 THEN 0
      ELSE AfterBackslashS(s, word, {"s", "S"}) - 1

\* ^[-–—]+\\s*: the end of the match at the head of s, 0 when none
DashesEnd(s) ==
  LET n == Run(s, 1, Dashes)
  IN  IF n = 0 \/ AfterBackslashS(s, n + 1, {"s"}) = 0 THEN 0
      ELSE AfterBackslashS(s, n + 1, {"s"}) - 1

\* re.sub(r"\\s+", " ", s): a backslash and the letters s after it give a blank
RECURSIVE BackslashS(_)
BackslashS(s) ==
  IF s = << >> THEN s
  ELSE IF Head(s) = "\\" /\ Run(s, 2, {"s"}) > 0
  THEN << " " >> \o BackslashS(SubSeq(s, 2 + Run(s, 2, {"s"}), Len(s)))
  ELSE << Head(s) >> \o BackslashS(Tail(s))

clean_details(details) ==
  LET a == SubSeq(details, PrefixEnd(details) + 1, Len(details))
      b == SubSeq(a, DashesEnd(a) + 1, Len(a))
  IN  Strip(BackslashS(b))

normalize_type(t, details) ==
  IF t \in {"Debit", "Credit"} THEN t
  ELSE IF InAnyCase("Received", details) THEN "Credit"
  ELSE "Debit"

\* round(x, 2) over thousandths; the amounts used hold no tie
Round2(v) ==
  LET a == IF v < 0 THEN 0 - v ELSE v
      q == IF a % 10 >= 5 THEN a \div 10 + 1 ELSE a \div 10
  IN  IF v < 0 THEN 0 - 10 * q ELSE 10 * q

normalize_amount(a) == Round2(a)

\* the records of the tuples whose date is read
to_records_dated(data, statement_type, uid) ==
  SelectSeq([i \in 1..Len(data) |->
               [date |-> normalize_date(data[i].date),
                transaction_details |-> clean_details(data[i].transaction_details),
                transaction_type |-> normalize_type(data[i].type, data[i].transaction_details),
                amount |-> normalize_amount(data[i].amount),
                verification_status |-> "unverified",
                statement_type |-> statement_type,
                user_id |-> IF uid = None THEN Absent ELSE uid]],
            LAMBDA rec : rec.date # NullDate)

to_records(data, statement_type, uid) ==
  [i \in 1..Len(data) |->
     [date |-> normalize_date(data[i].date),
      transaction_details |-> clean_details(data[i].transaction_details),
      transaction_type |-> normalize_type(data[i].type, data[i].transaction_details),
      amount |-> normalize_amount(data[i].amount),
      verification_status |-> "unverified",
      statement_type |-> statement_type,
      user_id |-> IF uid = None THEN Absent ELSE uid]]

\* ---------------------------------------------------------------- detection
\* what the first page shows of an issuer, and what the file name does
TextMarks == {"PhonePe", "SBI Card", "Axis Bank", "Google Pay"}
NameMarks == {"PhonePe", "SBI Card", "Axis Bank", "GPay"}

UpperOf(m) == IF m = "Axis Bank" THEN "AXIS BANK" ELSE m
LowerOf(m) == IF m = "Google Pay" THEN "google pay" ELSE IF m = "GPay" THEN "gpay" ELSE m

\* pdf.pages[0].extract_text() or "", "" as well when that call raises
first_page_text(pdf) ==
  IF pdf.lines # << >> /\ pdf.lines[1] = BadPage THEN {} ELSE pdf.banner

\* the chain with the Google Pay test first
DetectGPayFirst(pdf) ==
  IF "gpay" \in {LowerOf(m) : m \in pdf.name}
       \/ "google pay" \in {LowerOf(m) : m \in first_page_text(pdf)}
  THEN "gpay"
  ELSE IF "PhonePe" \in first_page_text(pdf) \/ "PhonePe" \in pdf.name THEN "phonepe"
  ELSE IF "SBI Card" \in first_page_text(pdf) \/ "SBI Card" \in pdf.name THEN "sbi"
  ELSE IF "AXIS BANK" \in {UpperOf(m) : m \in first_page_text(pdf)} THEN "axis"
  ELSE "generic"

\* the if / elif chain of extract_statement_data
Detect(pdf) ==
  LET text == first_page_text(pdf)
  IN  IF "PhonePe" \in text \/ "PhonePe" \in pdf.name THEN "phonepe"
      ELSE IF "SBI Card" \in text \/ "SBI Card" \in pdf.name THEN "sbi"
      ELSE IF "Axis Account" \in text \/ "AXIS BANK" \in {UpperOf(m) : m \in text} THEN "axis"
      ELSE IF "gpay" \in {LowerOf(m) : m \in pdf.name} \/ "google pay" \in {LowerOf(m) : m \in text}
      THEN "gpay"
      ELSE "generic"

Extract(e, pdf) ==
  CASE e = "phonepe" -> extract_phonepe_statement(pdf)
    [] e = "sbi" -> extract_sbi_statement(pdf)
    [] e = "axis" -> extract_axis_statement(pdf)
    [] e = "gpay" -> extract_gpay_statement(pdf)
    [] e = "generic" -> extract_generic_statement(pdf)

\* the extractors called, whether the except clause ran, and the list returned
Outcome(e, r) == [ran |-> << e >>, caught |-> r.raised, transactions |-> r.transactions]

extract_statement_data(pdf) ==
  IF ~pdf.opens THEN [ran |-> << >>, caught |-> TRUE, transactions |-> << >>]
  ELSE Outcome(Detect(pdf), Extract(Detect(pdf), pdf))

\* ---------------------------------------------------------------- store
\* the columns of on_conflict
ConflictKey(rec) == << rec.date, rec.transaction_details, rec.transaction_type, rec.amount >>

\* a plain insert: every record is appended
UpsertAppendAll(rows, recs) == rows \o recs

\* an upsert without ignore_duplicates: a record whose key a stored row has
\* takes the place of that row
RECURSIVE UpsertOverwrite(_, _)
UpsertOverwrite(rows, recs) ==
  IF recs = << >> THEN rows
  ELSE IF \E i \in 1..Len(rows) : ConflictKey(rows[i]) = ConflictKey(Head(recs))
  THEN UpsertOverwrite([i \in 1..Len(rows) |->
                          IF ConflictKey(rows[i]) = ConflictKey(Head(recs))
                          THEN Head(recs) ELSE rows[i]], Tail(recs))
  ELSE UpsertOverwrite(Append(rows, Head(recs)), Tail(recs))

\* upsert(records, on_conflict=..., ignore_duplicates=True): a record whose
\* key a stored row has is skipped, the others are appended in order
RECURSIVE Upsert(_, _)
Upsert(rows, recs) ==
  IF recs = << >> THEN rows
  ELSE IF \E i \in 1..Len(rows) : ConflictKey(rows[i]) = ConflictKey(Head(recs))
  THEN Upsert(rows, Tail(recs))
  ELSE Upsert(Append(rows, Head(recs)), Tail(recs))

\* ---------------------------------------------------------------- documents
GPayLines ==
  << << "0", "1", "Nov", ",", "2", "0", "2", "5", " ", "Paid", "to", "Blinkit", " ", "₹", "4", "2", "5" >>,
     << "Received", "from", "Ravi", " ", "₹", " ", "1", ".", "2", "3", "4" >>,
     << "Paid", "to", "X", " ", "₹" >>,
     << "Paid", "to", "X", " ", "₹", "0" >>,
     << "Refund", " ", "₹", "-", "5" >>,
     << "Paid", "to", "Y", " ", "₹", "NA" >> >>

PhonePeLines ==
  << << "Nov", " ", "2", "5", ",", " ", "2", "0", "2", "5", " ", "Paid", " ", "to", " ", "X", " ",
        "Debit", " ", "INR", " ", "5", "0", "0", ".", "0", "0" >>,
     << "Nov", " ", "2", "5", ",", " ", "2", "0", "2", "5", " ", "Received", " ", "from", " ", "S", " ",
        "Credit", " ", "INR" >>,
     << "0", "8", ":", "4", "5", " ", "PM", " ", "3", ",", "0", "0", "0", ".", "0", "0" >>,
     << "Nov", " ", "2", "5", ",", " ", "2", "0", "2", "5", " ", "-", " ", "Received", " ", "from", " ", "S" >> >>

GenericLines ==
  << << "5", "-", "1", "-", "2", "0", "2", "5", " ", "Coffee", " ", "1", "2", ".", "5", "0" >>,
     << "5", "-", "1", "-", "2", "0", "2", "5", " ", "Coffee" >>,
     << "2", "5", "/", "1", "1", "/", "2", "0", "2", "5", " ", "Fee", " ", "0" >>,
     << "1", "6", " ", "Nov", " ", "2", "5", " ", "Tea", " ", "2", "0", "2", "5" >>,
     << "2", "0", "2", "5", "-", "1", "1", "-", "2", "5", " ", "Rent", " ", "2", "0", "2", "5", ".", "0", "0", " ", "Cr" >> >>

SBIRows ==
  << << << "Date" >>, << "Transaction", " ", "Details" >>, << "Amount" >> >>,
     << << "Sl" >>, << "Date" >>, << "Amount" >> >>,
     << << "1", "6", " ", "Nov", " ", "2", "5", "\n", "2", "6", " ", "Nov", " ", "2", "5" >>,
        << "CARD", " ", "CASHBACK" >>,
        << "1", ",", "0", "1", "4", ".", "0", "0", " ", "C", "\n", "5", "0", "0", ".", "0", "0", " ", "C" >> >>,
     << << "1", "6", " ", "Nov", " ", "2", "5", "\n", "2", "6", " ", "Nov", " ", "2", "5" >>,
        << "CARD", " ", "CASHBACK", "\n", "SWIGGY" >>,
        << "1", ",", "0", "1", "4", ".", "0", "0", " ", "C", "\n", "5", "0", "0", ".", "0", "0", " ", "D" >> >>,
     << << "1", "6", " ", "Nov", " ", "2", "5" >>, << "FEE", " ", "WAIVER" >>, << "0", ".", "0", "0", " ", "D" >> >>,
     << << "1", "6", " ", "Nov", " ", "2", "5" >>, << "SWIGGY" >> >> >>

AxisRows ==
  << << << "Tran", " ", "Date" >>, << "Chq", " ", "No" >>, << "Particulars" >>, << "Debit" >>, << "Credit" >>, << "Balance" >> >>,
     << << "5", "-", "1", "-", "2", "0", "2", "5" >>, << >>, << "UPI", "\n", "Blinkit" >>, << "5", "0", ".", "0", "0" >>, << >>, << "9", "0" >> >>,
     << << "2", "5", "/", "1", "1", "/", "2", "0", "2", "5" >>, << >>, << "NEFT" >>, << " " >>, << "7", "0", ".", "0", "0" >>, << "9", "0" >> >>,
     << << "5", "-", "1", "-", "2", "0", "2", "5" >>, << >>, << "OPENING" >>, << >>, << >>, << "9", "0" >> >>,
     << << "5", "-", "1", "-", "2", "0", "2", "5" >>, << >>, << "UPI" >>, << "5", "0", ".", "0", "0" >> >> >>

Range(f) == {f[i] : i \in 1..Len(f)}

Pdf(name, banner, lines, rows) ==
  [name |-> name, banner |-> banner, opens |-> TRUE, lines |-> lines, rows |-> rows]

TextDocs(name, banner, Lines) ==
  {Pdf(name, banner, l, << >>) : l \in SeqsUpTo(Range(Lines) \cup {PageBreak, BadPage}, MaxLines)}
TableDocs(name, banner, Rows) ==
  {Pdf(name, banner, << >>, r) : r \in SeqsUpTo(Range(Rows), MaxLines)}

\* documents of each issuer, documents with any mix of marks, and a file
\* pdfplumber cannot open
Docs ==
  TextDocs({"GPay"}, {}, GPayLines) \cup TextDocs({}, {"PhonePe"}, PhonePeLines)
    \cup TextDocs({}, {}, GenericLines)
    \cup TableDocs({}, {"SBI Card"}, SBIRows) \cup TableDocs({}, {"Axis Bank"}, AxisRows)
    \cup {Pdf(n, b, l, << >>) : n \in SUBSET NameMarks, b \in SUBSET TextMarks,
                                l \in {<< GPayLines[1] >>}}
    \cup {Pdf(n, b, << BadPage >>, << >>) : n \in SUBSET {"GPay", "SBI Card"},
                                            b \in SUBSET {"PhonePe", "Google Pay"}}
    \cup {[Pdf({"GPay"}, {}, << GPayLines[1] >>, << >>) EXCEPT !.opens = FALSE]}

\* a later request sends the same document again, or this one
OtherDoc == Pdf({"GPay"}, {}, << GPayLines[1], GPayLines[2] >>, << >>)

TaskArgs ==
  {[statement_type |-> "UPI", user_id |-> "u1"], [statement_type |-> None, user_id |-> "u2"]}

\* ---------------------------------------------------------------- upload
MaxUploads == 2   \* upload requests

\* POST /upload-statement/: the file is saved and the task scheduled
upload_statement ==
  /\ upc = "idle"
  /\ uploads < MaxUploads
  /\ doc' \in IF uploads = 0 THEN Docs ELSE {doc, OtherDoc}
  /\ task_args' \in TaskArgs
  /\ uploads' = uploads + 1
  /\ upc' = "scheduled"
  /\ UNCHANGED << ran, caught, task_data, task_records, tx_rows, upserts >>
  /\ UNCHANGED << insight_vars, rate_vars, db_vars, arg_vars, fetch_vars, tag_vars, route_vars, persist_vars, run_vars, JOBS, pc >>

\* the background task: extract, materialize, upsert; insert_supabase returns
\* at once when there are no records, and else the upsert executes or raises,
\* and insert_supabase catches what it raises
process_statement_task ==
  /\ upc = "scheduled"
  /\ \E got \in {extract_statement_data(doc)} :
       /\ ran' = got.ran
       /\ caught' = got.caught
       /\ task_data' = got.transactions
       /\ \E recs \in {to_records(got.transactions, task_args.statement_type, task_args.user_id)} :
            /\ task_records' = recs
            /\ \/ recs = << >> /\ UNCHANGED << tx_rows, upserts >>
               \/ recs # << >> /\ tx_rows' = Upsert(tx_rows, recs) /\ upserts' = upserts + 1
               \/ recs # << >> /\ UNCHANGED << tx_rows, upserts >>
  /\ upc' = "idle"
  /\ UNCHANGED << doc, task_args, uploads >>
  /\ UNCHANGED << insight_vars, rate_vars, db_vars, arg_vars, fetch_vars, tag_vars, route_vars, persist_vars, run_vars, JOBS, pc >>

\* nothing is stored yet; the classification side stands still
InitUpload ==
  /\ Init
  /\ \A t \in TxIds : tx_table[t].verification_status = "unverified"
  /\ categories_table["u1"] = << >>

NextUpload == upload_statement \/ process_statement_task

SpecUpload == InitUpload /\ [][NextUpload]_vars

\* ================================================================ insights
\* update_agg(agg_dict, key, amount, type_)
update_agg(agg_dict, key, amount, type_) ==
  [k \in DOMAIN agg_dict \cup {key} |->
     [d \in {"Credit", "Debit"} |->
        (IF k \in DOMAIN agg_dict THEN agg_dict[k][d] ELSE 0)
          + (IF k = key /\ d = type_ THEN amount ELSE 0)]]

\* for tag in tags: update_agg(tag_stats, tag, amt, ttype)
RECURSIVE TagLoop(_, _, _, _)
TagLoop(agg_dict, tags, amt, ttype) ==
  IF tags = << >> THEN agg_dict
  ELSE TagLoop(update_agg(agg_dict, Head(tags), amt, ttype), Tail(tags), amt, ttype)

\* the two loops of the aggregation, over the rows read and over the results
RECURSIVE Aggregate(_, _)
Aggregate(txs, stats) ==
  IF txs = << >> THEN stats
  ELSE Aggregate(Tail(txs),
         [category_stats |-> update_agg(stats.category_stats, Head(txs).category,
                                        Head(txs).amount, Head(txs).transaction_type),
          tag_stats |-> TagLoop(stats.tag_stats, Head(txs).tags,
                                Head(txs).amount, Head(txs).transaction_type)])

\* category_stats = {}; tag_stats = {}
EmptyStats == [category_stats |-> << >>, tag_stats |-> << >>]

\* the rows the query for the owner's verified transactions returns
VerifiedRows(uid) ==
  LET ids == {t \in TxIds : /\ tx_table[t].user_id = uid
                            /\ tx_table[t].verification_status \in {"ai_verified", "human_verified"}}
  IN  [i \in 1..Cardinality(ids) |-> tx_table[SortedSeq(ids)[i]]]

\* init["results"] of run_insights_agent
InsightResults == << >>

NoDataInsights == "No verified financial data found. Please upload and verify bank statements first."
FailedInsights == "Failed to generate insights. Please try again later."

\* POST /ai/generate-insights, run_insights_job, run_insights_agent and
\* generate_insights: the query returns the rows or raises; with no rows the
\* node returns before the aggregation; the oracle answers or does not
generate_insights(uid) ==
  /\ insight_runs < MaxRuns
  /\ insight_runs' = insight_runs + 1
  /\ insight_user' = uid
  /\ \E txs \in {VerifiedRows(uid), << >>} :
       /\ all_txs' = txs
       /\ IF txs = << >>
          THEN /\ insights' = NoDataInsights
               /\ category_stats' = << >>
               /\ tag_stats' = << >>
          ELSE /\ insights' \in {"report", FailedInsights}
               /\ \E stats \in {Aggregate(InsightResults, Aggregate(txs, EmptyStats))} :
                    /\ category_stats' = stats.category_stats
                    /\ tag_stats' = stats.tag_stats
  /\ UNCHANGED << upload_vars, rate_vars, db_vars, arg_vars, fetch_vars, tag_vars, route_vars, persist_vars, run_vars, JOBS, pc >>

\* what a run of run_agent may write to a row: the tags are the list the
\* oracle gave, as it gave it
Writes ==
  {[category |-> "Groceries", tags |-> << "essential" >>, requires_human_verification |-> FALSE],
   [category |-> "Groceries", tags |-> << "essential", "impulse" >>, requires_human_verification |-> FALSE],
   [category |-> "Other", tags |-> << "impulse", "impulse" >>, requires_human_verification |-> FALSE],
   [category |-> "Other", tags |-> << >>, requires_human_verification |-> TRUE]}

\* an update of persist_results by a run of run_agent that had fetched row t
persist_update(t) ==
  /\ tx_table[t].verification_status = "unverified"
  /\ \E res \in Writes : tx_table' = [tx_table EXCEPT ![t] = UpdatedRow(tx_table[t], res)]
  /\ UNCHANGED << upload_vars, insight_vars, rate_vars, categories_table, arg_vars, fetch_vars, tag_vars, route_vars, persist_vars, run_vars, JOBS, pc >>

InitInsights ==
  /\ Init
  /\ categories_table["u1"] = << >>

NextInsights ==
  \/ \E uid \in Users : generate_insights(uid)
  \/ \E t \in TxIds : persist_update(t)

SpecInsights == InitInsights /\ [][NextInsights]_vars

\* ================================================================ upload and classification
\* the row as the update of persist_results leaves it: the columns category
\* and tags, null until then, are written with the status
StoredUpdate(row, res) ==
  [date |-> row.date, transaction_details |-> row.transaction_details,
   transaction_type |-> row.transaction_type, amount |-> row.amount,
   statement_type |-> row.statement_type, user_id |-> row.user_id,
   verification_status |-> PersistedStatus(res),
   category |-> res.category, tags |-> res.tags]

\* an update of persist_results by a run of run_agent that had fetched stored
\* row i; the runs come between the uploads
persist_stored(i) ==
  /\ upc = "idle"
  /\ uploads < MaxUploads
  /\ tx_rows[i].verification_status = "unverified"
  /\ \E res \in Writes : tx_rows' = [tx_rows EXCEPT ![i] = StoredUpdate(tx_rows[i], res)]
  /\ UNCHANGED << upc, uploads, doc, task_args, ran, caught, task_data, task_records, upserts >>
  /\ UNCHANGED << insight_vars, rate_vars, db_vars, arg_vars, fetch_vars, tag_vars, route_vars, persist_vars, run_vars, JOBS, pc >>

\* Google Pay statements of the first two lines of the menu
ReDocs ==
  {d \in Docs : /\ d.opens /\ d.name = {"GPay"} /\ d.banner = {}
                /\ Range(d.lines) \subseteq {GPayLines[1], GPayLines[2]}}

\* The owners upload statements, the same one again among them, and runs
\* classify what is stored in between.
NextReingest ==
  \/ upload_statement /\ doc' \in ReDocs
  \/ process_statement_task
  \/ \E i \in 1..Len(tx_rows) : persist_stored(i)

SpecReingest == InitUpload /\ [][NextReingest]_vars

\* ================================================================ rate limit
\* core/ratelimit.py, for one path and one caller (one key), with a redis
\* client configured.  RateLimiter(times=N, seconds=S)
times == 2

\* current = await redis.get(key): the value is read, or the call raises and
\* the except clause returns
rate_limit_get(q) ==
  /\ rlpc[q] = "idle"
  /\ \/ /\ current' = [current EXCEPT ![q] = redis_value]
        /\ rlpc' = [rlpc EXCEPT ![q] = "read"]
        /\ UNCHANGED admitted
     \/ /\ rlpc' = [rlpc EXCEPT ![q] = "caught RedisError"]
        /\ admitted' = admitted + 1
        /\ UNCHANGED current
  /\ UNCHANGED << redis_value, redis_expires >>
  /\ UNCHANGED << upload_vars, insight_vars, db_vars, arg_vars, fetch_vars, tag_vars, route_vars, persist_vars, run_vars, JOBS, pc >>

\* what the pipeline leaves: incr(key, 1), and expire(key, seconds) when
\* current was None
Incremented(value, expires, cur) ==
  [value |-> value + 1, expires |-> IF cur = 0 THEN TRUE ELSE expires]

\* the rest of the try block.  With current >= times it raises HTTPException
\* (429); HTTPException is an Exception, and the except clause of the same try
\* catches it and returns.  Otherwise the pipeline executes, or raises and the
\* except clause returns.  In each case __call__ returns None and the request
\* goes on to its handler.
rate_limit_count(q) ==
  /\ rlpc[q] = "read"
  /\ IF current[q] # 0 /\ current[q] >= times
     THEN /\ rlpc' = [rlpc EXCEPT ![q] = "caught HTTPException"]
          /\ UNCHANGED << redis_value, redis_expires >>
     ELSE \/ /\ redis_value' = Incremented(redis_value, redis_expires, current[q]).value
             /\ redis_expires' = Incremented(redis_value, redis_expires, current[q]).expires
             /\ rlpc' = [rlpc EXCEPT ![q] = "counted"]
          \/ /\ rlpc' = [rlpc EXCEPT ![q] = "caught RedisError"]
             /\ UNCHANGED << redis_value, redis_expires >>
  /\ admitted' = admitted + 1
  /\ UNCHANGED current
  /\ UNCHANGED << upload_vars, insight_vars, db_vars, arg_vars, fetch_vars, tag_vars, route_vars, persist_vars, run_vars, JOBS, pc >>

\* seconds have passed since expire(key, seconds): redis drops the key
redis_expire ==
  /\ redis_value > 0
  /\ redis_expires
  /\ redis_value' = 0
  /\ redis_expires' = FALSE
  /\ admitted' = 0
  /\ UNCHANGED << rlpc, current >>
  /\ UNCHANGED << upload_vars, insight_vars, db_vars, arg_vars, fetch_vars, tag_vars, route_vars, persist_vars, run_vars, JOBS, pc >>

\* requests of one caller to one path, handled side by side
NextRate ==
  \/ \E q \in RequestIds : rate_limit_get(q) \/ rate_limit_count(q)
  \/ redis_expire

SpecRate == InitJobs /\ [][NextRate]_vars

\* ================================================================ claims
\* the nodes and steps a run stands at once tag_with_gemini has returned
PostTag ==
  {"router", "behavioral_analysis", "mark_needs_verification", "persist_results",
   "return", "done", "finished"}

TagReturned(r) == pc[r] \in PostTag /\ exc[r] = None

\* element k of the answer is an object that names rid
Names(items, k, rid) == items[k].dict /\ items[k].has_id /\ items[k].hashable /\ items[k].id = rid

\* element k is the object the batch transaction rid is matched to
LastNaming(items, k, rid) ==
  /\ Names(items, k, rid)
  /\ \A j \in (k + 1)..Len(items) : ~Names(items, j, rid)

\* the objects of the answer out[r], none when it is no array
Answer(r) == IF out[r].kind = "array" THEN out[r].items ELSE << >>

\* C1: whatever the oracle answered (a subset of the ids, ids that are no batch
\* transaction, an id twice, nothing), once tag_with_gemini has returned the
\* results hold one entry per batch transaction, in batch order, with its id
\* and a verification_status of ai_verified or required_human_verification.
C1_MergeTotal ==
  \A r \in RunIds :
    TagReturned(r) =>
      /\ Len(results[r]) = Len(transactions[r])
      /\ \A i \in 1..Len(transactions[r]) :
           /\ results[r][i].id = transactions[r][i].id
           /\ results[r][i].verification_status
                \in {"ai_verified", "required_human_verification"}

\* a batch of two, an answer that names the first transaction twice and the
\* second not at all, and two results
C1_Witness ==
  \E r \in RunIds :
    /\ pc[r] = "router"
    /\ Len(transactions[r]) = 2
    /\ Len(Answer(r)) = 2
    /\ Names(Answer(r), 1, transactions[r][1].id)
    /\ Names(Answer(r), 2, transactions[r][1].id)
    /\ Len(results[r]) = 2

\* the confidence the object states (0.0 when it states none) meets th
MeetsThreshold(o, th) ==
  \/ o.conf_kind = "num" /\ o.confidence >= th
  \/ o.conf_kind = Absent /\ 0 >= th

\* C2: a merged transaction is ai_verified exactly when the object matched to
\* it has confidence >= threshold and its requires_human_verification is not
\* true; a confidence equal to the threshold meets it, and a transaction
\* without a matched object is never ai_verified.
C2_VerifiedIff ==
  \A r \in RunIds :
    (pc[r] = "router" /\ exc[r] = None) =>
      \A i \in 1..Len(results[r]) :
        (results[r][i].verification_status = "ai_verified")
          <=> \E k \in 1..Len(Answer(r)) :
                /\ LastNaming(Answer(r), k, transactions[r][i].id)
                /\ MeetsThreshold(Answer(r)[k], threshold[r])
                /\ Answer(r)[k].requires_human_verification # "true"

\* a transaction whose confidence equals the threshold 0.85 is ai_verified
C2_Witness ==
  \E r \in RunIds :
    /\ pc[r] = "router"
    /\ threshold[r] = 85
    /\ \E i \in 1..Len(results[r]) :
         /\ results[r][i].confidence = 85
         /\ results[r][i].verification_status = "ai_verified"

\* C3: a batch transaction no object of the answer names is merged as category
\* Other, no tags, confidence 0.0, required_human_verification, whatever the
\* threshold.
C3_MissingResult ==
  \A r \in RunIds :
    (pc[r] = "router" /\ exc[r] = None) =>
      \A i \in 1..Len(results[r]) :
        (\A k \in 1..Len(Answer(r)) : ~Names(Answer(r), k, transactions[r][i].id))
          => results[r][i] =
               [id |-> transactions[r][i].id, category |-> "Other", tags |-> << >>,
                confidence |-> 0, verification_status |-> "required_human_verification",
                requires_human_verification |-> TRUE]

\* threshold 0, an answer that names some other id, and the transaction is
\* still sent to a human
C3_Witness ==
  \E r \in RunIds :
    /\ pc[r] = "router"
    /\ threshold[r] = 0
    /\ Len(Answer(r)) > 0
    /\ \E i \in 1..Len(results[r]) :
         /\ \A k \in 1..Len(Answer(r)) : ~Names(Answer(r), k, transactions[r][i].id)
         /\ results[r][i].verification_status = "required_human_verification"

\* C4: the router names behavioral_analysis exactly when the results are not
\* empty and every one is ai_verified with confidence >= threshold; otherwise
\* it names mark_needs_verification, and the run goes to the node named.
C4_AllOrNothing ==
  \A r \in RunIds :
    branch[r] # None =>
      /\ branch[r] \in {"behavioral_analysis", "mark_needs_verification"}
      /\ (branch[r] = "behavioral_analysis")
           <=> /\ results[r] # << >>
               /\ \A i \in 1..Len(results[r]) :
                    /\ results[r][i].verification_status = "ai_verified"
                    /\ results[r][i].confidence >= threshold[r]
      /\ pc[r] \in {"behavioral_analysis", "mark_needs_verification"} => pc[r] = branch[r]

\* one ai_verified and one flagged transaction: the batch is at mark_needs_verification
C4_Witness ==
  \E r \in RunIds :
    /\ pc[r] = "mark_needs_verification"
    /\ Len(results[r]) = 2
    /\ results[r][1].verification_status = "ai_verified"
    /\ results[r][2].verification_status = "required_human_verification"

\* C5: with an empty batch tag_with_gemini leaves empty results without a call
\* of call_gemini and the router names mark_needs_verification; with a batch
\* that is not empty call_gemini is called once in the run.
C5_EmptyBatch ==
  \A r \in RunIds :
    /\ (TagReturned(r) /\ transactions[r] = << >>) =>
         /\ results[r] = << >>
         /\ gemini_calls[r] = 0
         /\ pc[r] # "router" => branch[r] = "mark_needs_verification"
    /\ ((pc[r] \in PostTag \cup {"raised"}) /\ transactions[r] # << >>) => gemini_calls[r] = 1
    /\ pc[r] \in {"idle", "pending", "fetch_unverified", "tag_with_gemini"} => gemini_calls[r] = 0

\* a run over an empty batch that went through mark_needs_verification
C5_Witness ==
  \E r \in RunIds :
    /\ pc[r] = "done"
    /\ transactions[r] = << >>
    /\ branch[r] = "mark_needs_verification"
    /\ gemini_calls[r] = 0

\* a failure of the oracle the run got through: call_gemini ended without an
\* answer
OracleFailed(r) == oracle_outcome[r] \in OracleOutcomes \ {"ok"}

\* C6: no failure and no answer of the oracle makes tag_with_gemini raise: the
\* run returns, after a failed call every batch transaction is flagged
\* required_human_verification, and the job of the run does not end in error.
C6_OracleNeverRaises ==
  \A r \in RunIds :
    oracle_outcome[r] # None =>
      /\ exc[r] = None
      /\ JOBS[r].status # "error"
      /\ (OracleFailed(r) /\ TagReturned(r)) =>
           \A i \in 1..Len(results[r]) :
             results[r][i].verification_status = "required_human_verification"

\* C7: no run is aborted by a read error of fetch_unverified: once the node is
\* over the run stands at tag_with_gemini or later, with the categories of the
\* owner or the default ones, and no exception of the store has left it.
C7_FetchFailsSoft ==
  \A r \in RunIds :
    pc[r] \notin {"idle", "pending", "fetch_unverified"} =>
      /\ exc[r] # "APIError"
      /\ categories[r] \in {categories_table[user_id[r]], DEFAULT_CATEGORIES}

\* C8: when the update of one result raised, every other result of the batch
\* has been written once persist_results is over.
C8_WriteFailureIsolated ==
  \A r \in RunIds :
    (pc[r] \in {"return", "done", "finished"} /\ exc[r] = None /\ write_error[r] # {}) =>
      \A i \in 1..Len(results[r]) :
        results[r][i].id \notin write_error[r] => results[r][i].id \in written[r]

\* C9: whichever node the router named, a result whose update executed is
\* stored with the category, the tags and the verification_status of the
\* merge, and when no update raised every result of the run is stored once
\* persist_results is over.
C9_PersistsDecision ==
  \A r \in RunIds :
    /\ \A i \in 1..Len(results[r]) :
         results[r][i].id \in written[r] =>
           /\ tx_table[results[r][i].id].category = results[r][i].category
           /\ tx_table[results[r][i].id].tags = results[r][i].tags
           /\ tx_table[results[r][i].id].verification_status
                = results[r][i].verification_status
    /\ (pc[r] \in {"return", "done"} /\ write_error[r] = {}) =>
         \A i \in 1..Len(results[r]) : results[r][i].id \in written[r]

\* a batch sent to mark_needs_verification whose ai_verified transaction is
\* stored as ai_verified
C9_Witness ==
  \E r \in RunIds :
    /\ pc[r] = "done"
    /\ branch[r] = "mark_needs_verification"
    /\ \E i \in 1..Len(results[r]) :
         /\ results[r][i].verification_status = "ai_verified"
         /\ tx_table[results[r][i].id].verification_status = "ai_verified"
         /\ tx_table[results[r][i].id].category = results[r][i].category

\* the steps an entry of JOBS may take
JobMoves ==
  {<< "absent", "pending" >>, << "pending", "running" >>,
   << "running", "done" >>, << "running", "error" >>}

\* C10: an entry of JOBS only moves pending -> running -> done or
\* pending -> running -> error, a done or error entry never changes again, a
\* done entry holds a result and no error, an error entry an error and no
\* result.
C10_JobLifecycle ==
  [][\A j \in RunIds :
       /\ JOBS'[j] # JOBS[j] => << JOBS[j].status, JOBS'[j].status >> \in JobMoves
       /\ JOBS'[j].status = "done" =>
            JOBS'[j].result # NoResponse /\ JOBS'[j].error = None
       /\ JOBS'[j].status = "error" =>
            JOBS'[j].result = NoResponse /\ JOBS'[j].error # None]_vars

\* one job ended done and another one ended in error
C10_Witness ==
  \E a \in RunIds, b \in RunIds :
    JOBS[a].status = "done" /\ JOBS[b].status = "error"

\* the ids of a batch, and the result a run holds for a row
BatchIds(txs) == {txs[i].id : i \in 1..Len(txs)}
ResultOf(r, t) == CHOOSE x \in {results[r][i] : i \in 1..Len(results[r])} : x.id = t

\* C11: runs of one owner do not exclude each other. A request is accepted
\* whatever the other runs are doing; a fetch whose limit is not binding hands
\* out every unverified row of the owner, rows another run holds included;
\* and an update writes the run's own decision over whatever the row holds.
C11_NotExclusive ==
  /\ [](\A r \in RunIds :
          pc[r] = "idle" => ENABLED ai_run_agent_async(r, {MaxTx}, {85}))
  /\ [][\A r \in RunIds :
          /\ (pc[r] = "fetch_unverified" /\ pc'[r] = "tag_with_gemini"
                /\ batch_size[r] >= MaxTx)
               => BatchIds(transactions'[r]) =
                    {t \in TxIds : /\ tx_table[t].verification_status = "unverified"
                                   /\ tx_table[t].user_id = user_id[r]}
          /\ \A t \in written'[r] \ written[r] :
               tx_table'[t].verification_status = PersistedStatus(ResultOf(r, t))]_vars

\* two runs fetched the same row while it was unverified, both wrote it with
\* different decisions, and the row holds the decision of one of them
C11_Witness ==
  \E a \in RunIds, b \in RunIds, t \in TxIds :
    /\ a # b
    /\ t \in written[a] \cap written[b]
    /\ t \in BatchIds(transactions[a]) \cap BatchIds(transactions[b])
    /\ PersistedStatus(ResultOf(a, t)) # PersistedStatus(ResultOf(b, t))
    /\ tx_table[t].verification_status = PersistedStatus(ResultOf(b, t))

Keys(rows) == {ConflictKey(rows[i]) : i \in 1..Len(rows)}

\* C14: the table never holds two rows with equal date, details, type and
\* amount; an upsert that returns leaves the stored rows as they were, skips
\* every record whose key is stored already or came earlier in the batch, and
\* stores the other records of the batch.
C14_UpsertIdempotent ==
  /\ [](Cardinality(Keys(tx_rows)) = Len(tx_rows))
  /\ [][upserts' = upserts + 1 =>
          /\ SubSeq(tx_rows', 1, Len(tx_rows)) = tx_rows
          /\ Keys(tx_rows') = Keys(tx_rows) \cup Keys(task_records')]_vars

\* a second run upserted a batch whose first record an earlier run, made for
\* another request, had stored: that record was skipped, the other one stored
C14_Witness ==
  /\ upserts = 2
  /\ Len(task_records) = 2
  /\ Len(tx_rows) = 2
  /\ ConflictKey(tx_rows[1]) = ConflictKey(task_records[1])
  /\ tx_rows[1].user_id # task_records[1].user_id
  /\ tx_rows[2] = task_records[2]

\* the signature of each issuer, and the order the claim gives
Order == << "phonepe", "sbi", "axis", "gpay" >>
Signature(e, pdf) ==
  CASE e = "phonepe" -> "PhonePe" \in first_page_text(pdf) \cup pdf.name
    [] e = "sbi" -> "SBI Card" \in first_page_text(pdf) \cup pdf.name
    [] e = "axis" -> "Axis Bank" \in first_page_text(pdf)
    [] e = "gpay" -> "Google Pay" \in first_page_text(pdf) \/ "GPay" \in pdf.name

\* the task of the last upload has run
Processed == upc = "idle" /\ uploads > 0

\* C15: for a document that opens, exactly one extractor runs: the first in
\* the order PhonePe, SBI Card, Axis, GPay whose signature the document
\* matches, and the generic one when it matches none.
C15_OneExtractor ==
  (Processed /\ doc.opens) =>
    /\ Len(ran) = 1
    /\ ran[1] = IF \E k \in 1..4 : Signature(Order[k], doc)
                THEN Order[CHOOSE k \in 1..4 :
                             /\ Signature(Order[k], doc)
                             /\ \A j \in 1..(k - 1) : ~Signature(Order[j], doc)]
                ELSE "generic"

\* a document with the signatures of Axis and Google Pay, and not those of
\* PhonePe and SBI Card, went to the Axis extractor alone
C15_Witness ==
  /\ Processed
  /\ doc.opens
  /\ Signature("axis", doc) /\ Signature("gpay", doc)
  /\ ~Signature("phonepe", doc) /\ ~Signature("sbi", doc)
  /\ ran = << "axis" >>

\* the lines of a cell, and a table of the header row and one more row
CellLines(cell) == SplitOn(cell, "\n")
OneRowTable(row) == << SBIRows[1], row >>

\* the SBI extractor has read the table of the header and this row
SbiRead(row) == Processed /\ ran = << "sbi" >> /\ doc.rows = OneRowTable(row)

\* two dates, the details CARD CASHBACK, two amounts that end in C
TwoDatesOneDetail(row) ==
  /\ Len(row) = 3
  /\ Len(CellLines(row[1])) = 2
  /\ row[2] = << "CARD", " ", "CASHBACK" >>
  /\ Len(CellLines(row[3])) = 2
  /\ \A i \in 1..2 : Last(CellLines(row[3])[i]) = "C"

\* C16, as stated: a row with two dates, the details CARD CASHBACK and two
\* amounts ending in C gives two transactions, both Credit, with the two
\* amounts.
C16_TwoTransactions ==
  \A r \in 1..Len(SBIRows) :
    (SbiRead(SBIRows[r]) /\ TwoDatesOneDetail(SBIRows[r])) =>
      /\ Len(task_data) = 2
      /\ \A i \in 1..2 :
           /\ task_data[i].type = "Credit"
           /\ task_data[i].amount = parse_amount(CellLines(SBIRows[r][3])[i])

\* the lines a row gives transactions for: as many as its shortest cell holds
Zipped(row) ==
  Min(Len(CellLines(row[1])), Min(Len(CellLines(row[2])), Len(CellLines(row[3]))))

\* C16, amended: a row with three non-empty cells whose amounts are positive
\* gives one transaction per line of its shortest cell, line i with date i,
\* details i and amount i, Credit exactly when amount i holds a C; with the
\* one-line details CARD CASHBACK that is one transaction, the first.
C16_SplitToShortest ==
  \A r \in 1..Len(SBIRows) :
    (/\ SbiRead(SBIRows[r])
     /\ Len(SBIRows[r]) >= 3
     /\ \A i \in 1..Zipped(SBIRows[r]) : parse_amount(CellLines(SBIRows[r][3])[i]) > 0) =>
      /\ Len(task_data) = Zipped(SBIRows[r])
      /\ \A i \in 1..Len(task_data) :
           /\ task_data[i].date = CellLines(SBIRows[r][1])[i]
           /\ task_data[i].transaction_details = CellLines(SBIRows[r][2])[i]
           /\ task_data[i].amount = parse_amount(CellLines(SBIRows[r][3])[i])
           /\ task_data[i].type = "Credit" <=> In("C", CellLines(SBIRows[r][3])[i])

\* the row of the example was read: one transaction, 1014.00, Credit
C16_Witness ==
  /\ SbiRead(SBIRows[3])
  /\ TwoDatesOneDetail(SBIRows[3])
  /\ Len(task_data) = 1
  /\ task_data[1].amount = 1014000
  /\ task_data[1].type = "Credit"

\* what the claim says of clean_details: the prefix "paid to" or "received
\* from", with or without blanks, in any case, and the blanks after it
WithoutPrefix(s) ==
  IF s # << >> /\ Lower(s[1]) \in {"paid", "received"}
       /\ 2 + Run(s, 2, Blank) <= Len(s)
       /\ Lower(s[2 + Run(s, 2, Blank)]) = (IF Lower(s[1]) = "paid" THEN "to" ELSE "from")
  THEN DropWhile(SubSeq(s, 3 + Run(s, 2, Blank), Len(s)), Blank)
  ELSE s

\* every run of blanks becomes one blank
RECURSIVE Collapsed(_)
Collapsed(s) ==
  IF s = << >> THEN s
  ELSE IF Head(s) \in Blank THEN << " " >> \o Collapsed(DropWhile(s, Blank))
  ELSE << Head(s) >> \o Collapsed(Tail(s))

Claimed(s) == Strip(Collapsed(CutDashes(WithoutPrefix(s))))

\* C17: clean_details removes a leading "paid to" / "paidto" / "received
\* from" / "receivedfrom" in any case, then a leading run of dashes, and
\* makes every run of blanks one blank; cleaning twice is cleaning once.
C17_CleanDetails ==
  \A i \in 1..Len(task_records) :
    /\ task_records[i].transaction_details = Claimed(task_data[i].transaction_details)
    /\ clean_details(task_records[i].transaction_details) = task_records[i].transaction_details

\* a calendar date
IsDate(d) == d.year >= 1 /\ d.month \in 1..12 /\ d.day \in 1..DaysIn(d.month)

\* C18: to_records gives one record per tuple, in the order of the tuples,
\* each unverified and with the statement type and owner of the request; the
\* date of a record is a calendar date or null, and a tuple whose date is not
\* read has its record all the same.
C18_OneRecordPerTuple ==
  Processed =>
    /\ Len(task_records) = Len(task_data)
    /\ \A i \in 1..Len(task_records) :
         /\ task_records[i].verification_status = "unverified"
         /\ task_records[i].statement_type = task_args.statement_type
         /\ task_records[i].user_id = task_args.user_id
         /\ task_records[i].amount = normalize_amount(task_data[i].amount)
         /\ task_records[i].date = NullDate \/ IsDate(task_records[i].date)

\* two tuples, the second with a date no format reads (25/11/2025): two
\* records, the second with date null
C18_Witness ==
  /\ Processed
  /\ Len(task_data) = 2
  /\ Len(task_records) = 2
  /\ task_data[2].date = << "2", "5", "/", "1", "1", "/", "2", "0", "2", "5" >>
  /\ task_records[1].date # NullDate
  /\ task_records[2].date = NullDate
  /\ task_records[1].amount # task_records[2].amount

\* C19: no extractor raises, and the tuples of the lines that are read are
\* returned whatever the other lines and pages of the document hold: a
\* Google Pay document that opens with the line 01Nov,2025 PaidtoBlinkit
\* 425 gives the tuple of that line.
C19_ParsableKept ==
  (Processed /\ doc.opens) =>
    /\ ~caught
    /\ (ran = << "gpay" >> /\ doc.lines # << >> /\ doc.lines[1] = GPayLines[1]) =>
         \E i \in 1..Len(task_data) :
           /\ task_data[i].transaction_details = << "Paid", "to", "Blinkit" >>
           /\ task_data[i].amount = 425000

\* the sum of the amounts of a set of rows of the table
RECURSIVE SumAmounts(_)
SumAmounts(S) ==
  IF S = {} THEN 0
  ELSE SumAmounts(S \ {Max(S)}) + tx_table[Max(S)].amount

\* the verified transactions of an owner
VerifiedOf(uid) ==
  {t \in TxIds : /\ tx_table[t].user_id = uid
                 /\ tx_table[t].verification_status \in {"ai_verified", "human_verified"}}

\* a run for uid that aggregated
Aggregated(uid) ==
  insight_runs' = insight_runs + 1 /\ insight_user' = uid /\ all_txs' # << >>

\* the category totals are the sums over the transactions of the category
CategoryTotalsRight(uid) ==
  /\ DOMAIN category_stats' = {tx_table[t].category : t \in VerifiedOf(uid)}
  /\ \A c \in DOMAIN category_stats', d \in {"Credit", "Debit"} :
       category_stats'[c][d] =
         SumAmounts({t \in VerifiedOf(uid) :
                       tx_table[t].category = c /\ tx_table[t].transaction_type = d})

\* the tag totals are the sums over the transactions whose list holds the tag
TagTotalsRight(uid) ==
  /\ DOMAIN tag_stats' = UNION {Range(tx_table[t].tags) : t \in VerifiedOf(uid)}
  /\ \A g \in DOMAIN tag_stats', d \in {"Credit", "Debit"} :
       tag_stats'[g][d] =
         SumAmounts({t \in VerifiedOf(uid) :
                       g \in Range(tx_table[t].tags) /\ tx_table[t].transaction_type = d})

\* a run that reads what the run before it read gives the totals it gave
SameAsBefore(uid) ==
  (insight_user = uid /\ all_txs' = all_txs) =>
    category_stats' = category_stats /\ tag_stats' = tag_stats

\* C20: a run that aggregates gives, for each category and direction, the sum
\* of the amounts of the owner's verified transactions of that category and
\* direction, and for each tag and direction the sum over the transactions
\* whose tag list holds the tag; two runs over the same data give the same
\* totals.
C20_Aggregates ==
  [][\A uid \in Users :
       Aggregated(uid) =>
         CategoryTotalsRight(uid) /\ TagTotalsRight(uid) /\ SameAsBefore(uid)]_vars

\* the prompt tag_with_gemini sent: the batch and the categories stay as
\* fetch_unverified left them
Prompt(r) == build_prompt(transactions[r], categories[r])
Sent(r) == gemini_calls[r] > 0

\* C21: the taxonomy of a prompt sent to the oracle is never empty; it is the
\* owner's category names or the 13 default categories, the default ones
\* whenever the owner has no category, and for a run without an owner.
C21_Taxonomy ==
  /\ Len(DEFAULT_CATEGORIES) = 13
  /\ \A ok \in BOOLEAN : EffectiveCategories(None, ok) = DEFAULT_CATEGORIES
  /\ \A r \in RunIds :
       Sent(r) =>
         /\ Prompt(r).categories # << >>
         /\ Prompt(r).categories \in {categories_table[user_id[r]], DEFAULT_CATEGORIES}
         /\ categories_table[user_id[r]] = << >> => Prompt(r).categories = DEFAULT_CATEGORIES

\* the owner has the category Food, and the prompt sent holds Food alone
C21_Witness ==
  \E r \in RunIds :
    /\ Sent(r)
    /\ categories_table[user_id[r]] = << "Food" >>
    /\ Prompt(r).categories = << "Food" >>
    /\ Prompt(r).inputs # << >>

\* a token that reads as a positive decimal: digits, at most one point with
\* digits after it, and a value above zero
PositiveDecimal(token) == IsDecimal(token) /\ FloatOf(token) > 0

\* a bare 4-digit integer in the range of years
BareYear(token) ==
  IsNumber(token, 4, 4) /\ IntOf(token) >= 1900 /\ IntOf(token) <= 2100

\* what the claim gives as the amount of a line: the first token from the right
\* that reads as a positive decimal and is no bare year, 0 when there is none
RECURSIVE ClaimedAmount(_, _)
ClaimedAmount(parts, k) ==
  IF k = 0 THEN 0
  ELSE IF PositiveDecimal(parts[k]) /\ ~BareYear(parts[k]) THEN FloatOf(parts[k])
  ELSE ClaimedAmount(parts, k - 1)

\* the amounts the claim gives for the lines of a document, line by line
ClaimedAmounts(lines) ==
  LET dated == SelectSeq(lines, LAMBDA l :
                 /\ Found(l, generic_date_pattern, TRUE)
                 /\ ClaimedAmount(Words(l), Len(Words(l))) > 0)
  IN  [i \in 1..Len(dated) |-> ClaimedAmount(Words(dated[i]), Len(Words(dated[i])))]

\* C22: the generic extractor gives, for each line with a date, the amount of
\* the first token from the right that reads as a positive decimal and is no
\* bare year between 1900 and 2100, and gives no transaction for a line with a
\* date and no such token.
C22_GenericAmount ==
  (Processed /\ ran = << "generic" >> /\ ~caught) =>
    [i \in 1..Len(task_data) |-> task_data[i].amount] = ClaimedAmounts(doc.lines)

\* the line holds a date and its last token is no decimal: "no amount token
\* of its own"
DateWithoutAmount(line) ==
  /\ Found(line, phonepe_date_pattern, FALSE)
  /\ ~IsDecimal(Remove(Last(Words(line)), << "," >>))

\* C23: in a PhonePe document, a line with a date and no amount of its own
\* (such as one that ends in Credit INR) that is followed, within three lines,
\* by a line whose last token is a decimal gives a transaction with that
\* amount, Credit when its details hold Received.
C23_LookAhead ==
  (Processed /\ ran = << "phonepe" >> /\ ~caught) =>
    \A i \in 1..Len(doc.lines) :
      (DateWithoutAmount(doc.lines[i]) /\ LookAhead(doc.lines, i) > 0) =>
        \E k \in 1..Len(task_data) :
          /\ task_data[k].date = Group(doc.lines[i], Search(doc.lines[i], phonepe_date_pattern, FALSE))
          /\ task_data[k].amount = LookAhead(doc.lines, i)
          /\ InAnyCase("Received", task_data[k].transaction_details) => task_data[k].type = "Credit"

\* how a call of the limiter can end: it returned (the pipeline had executed,
\* or the except clause had caught something), or 429 left it
Ended == {"counted", "caught RedisError", "caught HTTPException", "rejected"}

\* C24: as long as redis answers, at most times requests of the caller are
\* admitted within one window (from the creation of the key to its expiry),
\* also when they are handled side by side, and a request that read a counter
\* that had reached times ends with 429.
C24_AtMostN ==
  (\A q \in RequestIds : rlpc[q] # "caught RedisError") =>
    /\ admitted <= times
    /\ \A q \in RequestIds :
         (rlpc[q] \in Ended /\ current[q] >= times) => rlpc[q] = "rejected"

\* run_agent returned and every update of persist_results executed
ReturnedAllWritten(r) == pc[r] = "done" /\ write_error[r] = {}

\* the step in which fetch_unverified of run r hands out its batch
Fetches(r) == pc[r] = "fetch_unverified" /\ pc'[r] = "tag_with_gemini"

\* C25: once a run has returned with all its writes executed, no row of its
\* batch is unverified, whatever the oracle did; and when runs follow one
\* another, a later run is handed no row of the batch of such a run.
C25_NeverTwice ==
  /\ [](\A r \in RunIds :
          ReturnedAllWritten(r) =>
            \A t \in BatchIds(transactions[r]) :
              tx_table[t].verification_status # "unverified")
  /\ [][\A r \in RunIds :
          Fetches(r) =>
            \A q \in RunIds \ {r} :
              ReturnedAllWritten(q) =>
                BatchIds(transactions'[r]) \cap BatchIds(transactions[q]) = {}]_vars

\* a run whose call of the oracle failed returned with its row written, and
\* the run after it was handed another row and returned as well
C25_Witness ==
  \E a \in RunIds, b \in RunIds :
    /\ a # b
    /\ ReturnedAllWritten(a) /\ ReturnedAllWritten(b)
    /\ oracle_outcome[a] = "api_error"
    /\ transactions[a] # << >> /\ transactions[b] # << >>
    /\ BatchIds(transactions[a]) \cap BatchIds(transactions[b]) = {}
    /\ \A t \in BatchIds(transactions[a]) :
         tx_table[t].verification_status = "required_human_verification"

\* what classification has no business with
Imported(row) ==
  [id |-> row.id, user_id |-> row.user_id, date |-> row.date,
   transaction_details |-> row.transaction_details, amount |-> row.amount,
   transaction_type |-> row.transaction_type]

\* C26: a step of a classification run leaves the set of rows as it is, leaves
\* id, owner, date, details, amount and direction of every row as they are,
\* and changes category, tags or verification_status only of a row in the
\* batch of the run that stands in persist_results.
C26_Frame ==
  [][/\ DOMAIN tx_table' = DOMAIN tx_table
     /\ \A t \in TxIds :
          /\ Imported(tx_table'[t]) = Imported(tx_table[t])
          /\ tx_table'[t] # tx_table[t] =>
               \E r \in RunIds :
                 /\ pc[r] = "persist_results"
                 /\ t \in BatchIds(transactions[r])
                 /\ written'[r] = written[r] \cup {t}]_vars

\* a run with a batch of one row has written it and returned, and another
\* unverified row of the owner is as upload left it
C26_Witness ==
  \E r \in RunIds, t \in TxIds, u \in TxIds :
    /\ pc[r] = "done"
    /\ BatchIds(transactions[r]) = {t}
    /\ written[r] = {t}
    /\ tx_table[t].verification_status # "unverified"
    /\ tx_table[t].category # None
    /\ u # t
    /\ tx_table[u] = NewRow(u, "unverified")
    /\ tx_table[u].user_id = tx_table[t].user_id

\* the background task of an upload runs in this step
TaskRuns == upc = "scheduled" /\ upc' = "idle"

\* C27: the task of an upload, whether its upsert returns or raises, leaves
\* every stored row as it is, so a row a run has classified keeps its
\* verification_status, category and tags when its statement is uploaded
\* again; and no step brings a classified row back to unverified.
C27_ReingestKeeps ==
  [][/\ TaskRuns => /\ Len(tx_rows') >= Len(tx_rows)
                    /\ \A i \in 1..Len(tx_rows) : tx_rows'[i] = tx_rows[i]
     /\ \A i \in 1..Len(tx_rows) :
          tx_rows[i].verification_status # "unverified" =>
            tx_rows'[i].verification_status = tx_rows[i].verification_status]_vars

\* a statement was uploaded, a run classified its first row as ai_verified,
\* Groceries, the same statement was uploaded again and its upsert returned:
\* the record of the row came again as unverified, and the row is as the run
\* left it, with no row added
C27_Witness ==
  /\ Processed
  /\ uploads = 2
  /\ upserts = 2
  /\ Len(tx_rows) = Len(task_records)
  /\ ConflictKey(task_records[1]) = ConflictKey(tx_rows[1])
  /\ task_records[1].verification_status = "unverified"
  /\ tx_rows[1].verification_status = "ai_verified"
  /\ tx_rows[1].category = "Groceries"
  /\ tx_rows[1].tags = << "essential" >>

\* C28: once two uploads have been processed and both upserts returned, every
\* record of the later upload is stored for its owner, whatever the other
\* owner had stored before.
C28_OwnerIsolation ==
  (Processed /\ uploads = 2 /\ upserts = 2) =>
    \A i \in 1..Len(task_records) :
      \E j \in 1..Len(tx_rows) :
        /\ ConflictKey(tx_rows[j]) = ConflictKey(task_records[i])
        /\ tx_rows[j].user_id = task_records[i].user_id

\* C29: a run that returned reports path "A" exactly when its batch was not
\* empty and the list of flagged transactions it returns is empty, and path "B"
\* in every other case; count and flagged_count are the length of that list.
C29_PathReported ==
  \A r \in RunIds :
    response[r].returned =>
      /\ response[r].results = Flagged(results[r])
      /\ response[r].count = Len(response[r].results)
      /\ response[r].flagged_count = Len(response[r].results)
      /\ response[r].path =
           (IF transactions[r] # << >> /\ response[r].results = << >> THEN "A" ELSE "B")

\* C30: every category the merge step recorded for a transaction of a run, and
\* every category the run's persist step wrote to the row, is a member of the
\* taxonomy the run sent to the oracle, or is "Other".
C30_CategoryInTaxonomy ==
  \A r \in RunIds :
    \A i \in 1..Len(results[r]) :
      /\ results[r][i].category \in Range(categories[r]) \cup {"Other"}
      /\ results[r][i].id \in written[r] =>
           tx_table[results[r][i].id].category \in Range(categories[r]) \cup {"Other"}

====
